---- MODULE Spec2Model ----
(***************************************************************************)
(* Rekordbox export.pdb reader, playlist writer and save path of the USB   *)
(* playlist editor.                                                        *)
(*                                                                         *)
(* Buffers are sequences of bytes; a byte offset o of the source is the    *)
(* element o+1 of the sequence.  Integer fields are little-endian.  The    *)
(* byte values used by the input families keep every 32-bit field below    *)
(* 2^31, so that a field is an ordinary integer of the model.              *)
(***************************************************************************)
EXTENDS Integers, Sequences, FiniteSets, TLC

VARIABLES
  \* ---- applyPlaylistModifications (one call) ----
  wpc,               \* position of the call: "idle", "loop", "returned"
  heap,              \* ArrayBuffer objects: reference -> bytes
  originalBuffer,    \* reference of the caller's buffer (argument 1)
  originalEntries,   \* argument 2
  modifiedEntries,   \* argument 3
  buffer,            \* reference of the working buffer (result of slice)
  locations,         \* Map key -> offset built by the scan
  modifiedByPlaylist,\* Map playlistId -> entries sorted by entryIndex
  wi,                \* number of original entries already processed
  modCount,
  notFoundCount,
  callBytes,         \* history: bytes of the caller's buffer at call time
  matchLog,          \* history: outcome of each processed original entry
  \* ---- new PDBParser(buffer).parse() (one call) ----
  ppc,               \* "new", "walk", "returned", "threw"
  pbuf,              \* the bytes of the buffer being parsed
  pageSize,          \* PDBParser.pageSize
  tables,            \* PDBParser.tables: type -> first and last page
  tableIdx,          \* position of parse in TableOrder
  currentPage,       \* iterateTableRows: currentPage
  pageCount,         \* iterateTableRows: pageCount
  walking,           \* the generator of the current table has not returned
  db,                \* the RekordboxDatabase under construction
  lastStep,          \* history: what the last page step did
  faults,            \* the rows whose decoder raises and the pages at which
                     \* the walker raises (none unless stated)
  \* ---- useFileSystem: the loaded database and saveDatabase ----
  spc,               \* the await saveDatabase is suspended at, or "idle"
  exportPdb,         \* disk: the bytes of export.pdb
  backupFiles,       \* disk: backup filename (its timestamp) -> bytes
  originalPdbBuffer,
  originalPlaylistEntries,
  isSaving,
  saveEntries,       \* saveDatabase: the argument modifiedEntries
  backupFilename,    \* saveDatabase: backupFilename
  backupWritable,    \* saveDatabase: backupWritable (a swap file)
  modifiedBuffer,    \* saveDatabase: modifiedBuffer
  writable,          \* saveDatabase: writable (a swap file)
  saveResult,        \* what the last saveDatabase call resolved to
  saveCount,         \* number of saveDatabase calls so far
  now,               \* the clock, in ticks
  \* ---- BinaryReader: one reader and the call last made on it ----
  rpc,               \* "none", "ready" (constructed), "called"
  rbuf,              \* the bytes of the reader's buffer
  rcall,             \* history: the last call, its arguments and result
  \* ---- usePlaylistEditor: the database prop and the hook's state ----
  database,          \* database.playlistEntries
  modifiedPlaylists, \* state.modifiedPlaylists: a Map in insertion order
  hasUnsavedChanges  \* state.hasUnsavedChanges

wvars == <<wpc, heap, originalBuffer, originalEntries, modifiedEntries, buffer,
           locations, modifiedByPlaylist, wi, modCount, notFoundCount,
           callBytes, matchLog>>

pvars == <<ppc, pbuf, pageSize, tables, tableIdx, currentPage, pageCount,
           walking, db, lastStep, faults>>

avars == <<spc, exportPdb, backupFiles, originalPdbBuffer,
           originalPlaylistEntries, isSaving, saveEntries, backupFilename,
           backupWritable, modifiedBuffer, writable, saveResult, saveCount, now>>

rvars == <<rpc, rbuf, rcall>>

evars == <<database, modifiedPlaylists, hasUnsavedChanges>>

vars == <<wvars, pvars, avars, rvars, evars>>

(***************************************************************************)
(* Bounds of the input families.                                           *)
(***************************************************************************)
MaxOriginal == 2      \* longest original entry list
MaxModified == 2      \* longest edited entry list
MaxOrdinal  == 1      \* largest entryIndex of an input entry
PlaylistIds == {1, 2}
TrackIds    == {1, 2}
LeadPads    == {0, 1} \* bytes in front of the first stored row
TrailPads   == {0, 2} \* bytes after the last stored row

(***************************************************************************)
(* `const v = value; ... v ...`: the value is computed once, then used.    *)
(***************************************************************************)
Let(value, Body(_)) == CHOOSE out \in {Body(v) : v \in {value}} : TRUE

(***************************************************************************)
(* Bytes and DataView.                                                     *)
(***************************************************************************)
RangeError == -1      \* outcome of a DataView access outside the buffer

Byte(n, k) ==
  CASE k = 0 -> n % 256
    [] k = 1 -> (n \div 256) % 256
    [] k = 2 -> (n \div 65536) % 256
    [] k = 3 -> (n \div 16777216) % 256

\* DataView.getUint32(offset, true)
getUint32(b, offset) ==
  IF offset < 0 \/ offset + 4 > Len(b) THEN RangeError
  ELSE b[offset + 1] + 256 * b[offset + 2] + 65536 * b[offset + 3]
       + 16777216 * b[offset + 4]

\* a write that lands on the field after the ordinal
setUint32AtNextField(b, offset, value) ==
  [k \in 1..Len(b) |->
     IF k - 1 >= offset + 4 /\ k - 1 < offset + 8 THEN Byte(value, k - 5 - offset)
     ELSE b[k]]

\* DataView.setUint32(offset, value, true); the caller guarantees the range
setUint32(b, offset, value) ==
  [k \in 1..Len(b) |->
     IF k - 1 >= offset /\ k - 1 < offset + 4 THEN Byte(value, k - 1 - offset)
     ELSE b[k]]

\* no copy: the working buffer is the caller's object
sliceAliased(h, ref) == [heap |-> h, ref |-> ref]

\* ArrayBuffer.slice(0): a new object holding a copy of the bytes
slice0(h, ref) == [heap |-> Append(h, h[ref]), ref |-> Len(h) + 1]

(***************************************************************************)
(* Playlist entries and their lookup key.  The source key is the text      *)
(* `${playlistId}-${trackId}-${entryIndex}`; the text of three integers    *)
(* determines the three integers, so the key is their triple.              *)
(***************************************************************************)
Entry(p, t, i) == [playlistId |-> p, trackId |-> t, entryIndex |-> i]

KeyOf(e) == <<e.playlistId, e.trackId, e.entryIndex>>

\* Array.prototype.sort((a, b) => a.entryIndex - b.entryIndex): stable
RECURSIVE InsertByEntryIndex(_, _)
InsertByEntryIndex(sorted, e) ==
  IF sorted = <<>> THEN <<e>>
  ELSE IF sorted[Len(sorted)].entryIndex <= e.entryIndex THEN Append(sorted, e)
  ELSE Append(InsertByEntryIndex(SubSeq(sorted, 1, Len(sorted) - 1), e),
              sorted[Len(sorted)])

RECURSIVE SortByEntryIndex(_)
SortByEntryIndex(s) ==
  IF s = <<>> THEN <<>>
  ELSE InsertByEntryIndex(SortByEntryIndex(SubSeq(s, 1, Len(s) - 1)), s[Len(s)])

\* Array.prototype.findIndex, 0-based, -1 when absent
RECURSIVE FindIndexFrom(_, _, _)
FindIndexFrom(s, i, ordinal) ==
  IF i > Len(s) THEN -1
  ELSE IF s[i].entryIndex = ordinal THEN i - 1
  ELSE FindIndexFrom(s, i + 1, ordinal)

(***************************************************************************)
(* findPlaylistEntriesByPattern                                            *)
(***************************************************************************)
\* the loop condition of the scan
ScanContinues(b, offset) == offset < Len(b) - 12

\* the offsets the loop of line 33 visits from offset on
ScannedFrom(b, offset) ==
  {o \in offset..Len(b) : (o - offset) % 2 = 0 /\ ScanContinues(b, o)}

\* lines 35-38: the three fields read at offset, in the order of the key
TripleAt(b, offset) ==
  <<getUint32(b, offset + 8), getUint32(b, offset + 4), getUint32(b, offset)>>

\* a scan in which a later match replaces an earlier one
ScanKeepsLast(b, offset, entriesToFind, locs) ==
  LET hits == {o \in ScannedFrom(b, offset) :
                 /\ RangeError \notin {TripleAt(b, o)[k] : k \in 1..3}
                 /\ TripleAt(b, o) \in entriesToFind}
  IN [key \in {TripleAt(b, o) : o \in hits} |->
        CHOOSE o \in hits : /\ TripleAt(b, o) = key
                            /\ \A q \in hits : TripleAt(b, q) = key => q <= o]
     @@ locs

\* The loop of lines 33-53 from offset on.  An iteration whose triple is not
\* a wanted key, or whose read raises, changes nothing: the scan moves to the
\* first offset at which a wanted key is read, records it, and goes on until
\* every key is found or the offsets are used up.
RECURSIVE ScanFrom(_, _, _, _)
ScanFrom(b, offset, entriesToFind, locs) ==
  Let({o \in ScannedFrom(b, offset) :
         /\ RangeError \notin {TripleAt(b, o)[k] : k \in 1..3}
         /\ TripleAt(b, o) \in entriesToFind},
      LAMBDA hits :
        IF hits = {} THEN locs
        ELSE Let(CHOOSE o \in hits : \A q \in hits : o <= q,
               LAMBDA hit :
                 Let((TripleAt(b, hit) :> hit) @@ locs,
                   LAMBDA found :
                     Let(entriesToFind \ {TripleAt(b, hit)},
                       LAMBDA rest :
                         IF rest = {} THEN found
                         ELSE ScanFrom(b, hit + 2, rest, found)))))

findPlaylistEntriesByPattern(b, entries) ==
  ScanFrom(b, 0, {KeyOf(entries[i]) : i \in 1..Len(entries)}, <<>>)

(***************************************************************************)
(* applyPlaylistModifications                                              *)
(***************************************************************************)
\* grouping without the sort of lines 86-89
GroupByPlaylistUnsorted(entries) ==
  [p \in {entries[i].playlistId : i \in 1..Len(entries)} |->
     SelectSeq(entries, LAMBDA e: e.playlistId = p)]

\* lines 77-89: group the edited entries by playlist, sort each group
GroupByPlaylist(entries) ==
  [p \in {entries[i].playlistId : i \in 1..Len(entries)} |->
     SortByEntryIndex(SelectSeq(entries, LAMBDA e: e.playlistId = p))]

\* the instances in list order, without the sort of line 117
OriginalSameTrackUnsorted(entries, oe) ==
  SelectSeq(entries,
     LAMBDA e: e.playlistId = oe.playlistId /\ e.trackId = oe.trackId)

\* lines 114-117
OriginalSameTrack(entries, oe) ==
  SortByEntryIndex(SelectSeq(entries,
     LAMBDA e: e.playlistId = oe.playlistId /\ e.trackId = oe.trackId))

\* line 120
ModifiedSameTrack(playlistModified, oe) ==
  SelectSeq(playlistModified, LAMBDA e: e.trackId = oe.trackId)

\* a writer that rewrites and counts every matched entry
OrdinalAlwaysDiffers(currentIndex, entryIndex) == TRUE

\* line 139: the stored ordinal is not the edited one
OrdinalDiffers(currentIndex, entryIndex) == currentIndex # entryIndex

\* One iteration of the loop of lines 96-144 over bytes b; the outcome names
\* the branch taken, instance and target are those of lines 128 and 131.
ApplyEntry(b, locs, byPlaylist, entries, oe) ==
  LET locationKey == KeyOf(oe)
      skip(why) == [bytes |-> b, mod |-> 0, notFound |-> 0, outcome |-> why,
                    offset |-> -1, instance |-> -1, target |-> oe]
  IN
  IF locationKey \notin DOMAIN locs
    THEN [skip("notFound") EXCEPT !.notFound = 1]
  ELSE IF oe.playlistId \notin DOMAIN byPlaylist
    THEN [skip("playlistRemoved") EXCEPT !.offset = locs[locationKey]]
  ELSE
    LET offset            == locs[locationKey]
        originalSameTrack == OriginalSameTrack(entries, oe)
        modifiedSameTrack == ModifiedSameTrack(byPlaylist[oe.playlistId], oe)
        instanceIndex     == FindIndexFrom(originalSameTrack, 1, oe.entryIndex)
    IN
    IF modifiedSameTrack = <<>>
      THEN [skip("trackRemoved") EXCEPT !.offset = offset]
    ELSE IF instanceIndex < 0 \/ instanceIndex + 1 > Len(modifiedSameTrack)
      THEN [skip("instanceRemoved") EXCEPT !.offset = offset,
                                           !.instance = instanceIndex]
    ELSE
      LET modifiedEntry == modifiedSameTrack[instanceIndex + 1]
          currentIndex  == getUint32(b, offset)
      IN IF OrdinalDiffers(currentIndex, modifiedEntry.entryIndex)
           THEN [bytes |-> setUint32(b, offset, modifiedEntry.entryIndex),
                 mod |-> 1, notFound |-> 0, outcome |-> "written",
                 offset |-> offset, instance |-> instanceIndex,
                 target |-> modifiedEntry]
           ELSE [bytes |-> b, mod |-> 0, notFound |-> 0,
                 outcome |-> "unchanged", offset |-> offset,
                 instance |-> instanceIndex, target |-> modifiedEntry]

(***************************************************************************)
(* Input families of the writer.                                           *)
(***************************************************************************)
Ordinals == 0..MaxOrdinal

Entries == {Entry(p, t, i) : p \in PlaylistIds, t \in TrackIds, i \in Ordinals}

SeqsUpTo(S, n) == UNION {[1..k -> S] : k \in 0..n}

LE32(n) == <<Byte(n, 0), Byte(n, 1), Byte(n, 2), Byte(n, 3)>>

\* the 12 bytes of a playlist-entry row (parsePlaylistEntry reads them back)
RowBytes(e) == LE32(e.entryIndex) \o LE32(e.trackId) \o LE32(e.playlistId)

RECURSIVE RowsBytes(_)
RowsBytes(rows) ==
  IF rows = <<>> THEN <<>> ELSE RowBytes(Head(rows)) \o RowsBytes(Tail(rows))

Zeros(n) == [k \in 1..n |-> 0]

\* a buffer that stores rows one after the other between two pads
Layout(lead, rows, trail) == Zeros(lead) \o RowsBytes(rows) \o Zeros(trail)

(***************************************************************************)
(* The call, step by step.                                                 *)
(***************************************************************************)
\* no parse in progress
ParserIdle ==
  /\ ppc = "none"
  /\ pbuf = <<>>
  /\ pageSize = 0
  /\ tables = <<>>
  /\ tableIdx = 0
  /\ currentPage = 0
  /\ pageCount = 0
  /\ walking = FALSE
  /\ db = <<>>
  /\ lastStep = <<>>
  /\ faults = <<>>

\* no reader under test
ReaderIdle ==
  /\ rpc = "none"
  /\ rbuf = <<>>
  /\ rcall = <<>>

\* no database loaded
EditorIdle ==
  /\ database = <<>>
  /\ modifiedPlaylists = <<>>
  /\ hasUnsavedChanges = FALSE

AppIdle ==
  /\ spc = "none"
  /\ exportPdb = <<>>
  /\ backupFiles = <<>>
  /\ originalPdbBuffer = <<>>
  /\ originalPlaylistEntries = <<>>
  /\ isSaving = FALSE
  /\ saveEntries = <<>>
  /\ backupFilename = 0
  /\ backupWritable = <<>>
  /\ modifiedBuffer = <<>>
  /\ writable = <<>>
  /\ saveResult = "none"
  /\ saveCount = 0
  /\ now = 0

\* no writer call in progress
WriterIdle ==
  /\ wpc = "none"
  /\ heap = <<>>
  /\ originalBuffer = 0
  /\ originalEntries = <<>>
  /\ modifiedEntries = <<>>
  /\ buffer = 0
  /\ locations = <<>>
  /\ modifiedByPlaylist = <<>>
  /\ wi = 0
  /\ modCount = 0
  /\ notFoundCount = 0
  /\ callBytes = <<>>
  /\ matchLog = <<>>

InitWriter ==
  /\ wpc = "idle"
  /\ heap = <<>>
  /\ originalBuffer = 0
  /\ originalEntries = <<>>
  /\ modifiedEntries = <<>>
  /\ buffer = 0
  /\ locations = <<>>
  /\ modifiedByPlaylist = <<>>
  /\ wi = 0
  /\ modCount = 0
  /\ notFoundCount = 0
  /\ callBytes = <<>>
  /\ matchLog = <<>>
  /\ ParserIdle
  /\ AppIdle
  /\ EditorIdle
  /\ ReaderIdle

\* lines 62-93: copy the buffer, scan it, group the edited entries
WriterCall ==
  /\ wpc = "idle"
  /\ \E oes \in SeqsUpTo(Entries, MaxOriginal),
        mes \in SeqsUpTo(Entries, MaxModified),
        lead \in LeadPads, trail \in TrailPads :
       LET bytes  == Layout(lead, oes, trail)
           copied == slice0(<<bytes>>, 1)
       IN /\ heap' = copied.heap
          /\ originalBuffer' = 1
          /\ buffer' = copied.ref
          /\ originalEntries' = oes
          /\ modifiedEntries' = mes
          /\ callBytes' = bytes
          /\ locations' = findPlaylistEntriesByPattern(copied.heap[copied.ref], oes)
          /\ modifiedByPlaylist' = GroupByPlaylist(mes)
  /\ wpc' = "loop"
  /\ wi' = 0
  /\ modCount' = 0
  /\ notFoundCount' = 0
  /\ matchLog' = <<>>
  /\ UNCHANGED <<pvars, avars, rvars, evars>>

\* lines 96-144: one original entry
WriterLoop ==
  /\ wpc = "loop"
  /\ wi < Len(originalEntries)
  /\ LET r == ApplyEntry(heap[buffer], locations, modifiedByPlaylist,
                         originalEntries, originalEntries[wi + 1])
     IN /\ heap' = [heap EXCEPT ![buffer] = r.bytes]
        /\ modCount' = modCount + r.mod
        /\ notFoundCount' = notFoundCount + r.notFound
        /\ matchLog' = Append(matchLog,
                         [outcome |-> r.outcome, offset |-> r.offset,
                          instance |-> r.instance, target |-> r.target])
  /\ wi' = wi + 1
  /\ UNCHANGED <<wpc, originalBuffer, originalEntries, modifiedEntries, buffer,
                 locations, modifiedByPlaylist, callBytes>>
  /\ UNCHANGED <<pvars, avars, rvars, evars>>

\* lines 146-148
WriterReturn ==
  /\ wpc = "loop"
  /\ wi = Len(originalEntries)
  /\ wpc' = "returned"
  /\ UNCHANGED <<heap, originalBuffer, originalEntries, modifiedEntries, buffer,
                 locations, modifiedByPlaylist, wi, modCount, notFoundCount,
                 callBytes, matchLog>>
  /\ UNCHANGED <<pvars, avars, rvars, evars>>

\* the whole call as a function of its arguments: the bytes it returns
RECURSIVE ApplyEntriesFrom(_, _, _, _, _)
ApplyEntriesFrom(b, locs, byPlaylist, entries, k) ==
  IF k > Len(entries) THEN b
  ELSE Let(ApplyEntry(b, locs, byPlaylist, entries, entries[k]).bytes,
         LAMBDA written :
           ApplyEntriesFrom(written, locs, byPlaylist, entries, k + 1))

applyPlaylistModifications(bytes, oes, mes) ==
  Let(findPlaylistEntriesByPattern(bytes, oes),
    LAMBDA locs :
      Let(GroupByPlaylist(mes),
        LAMBDA byPlaylist : ApplyEntriesFrom(bytes, locs, byPlaylist, oes, 1)))

NextWriter == WriterCall \/ WriterLoop \/ WriterReturn

SpecWriter == InitWriter /\ [][NextWriter]_vars

\* the returned buffer
Returned == wpc = "returned"
Output == heap[buffer]

(***************************************************************************)
(* Vocabulary of the writer's properties, stated on the inputs and the     *)
(* output only.                                                            *)
(***************************************************************************)
\* the even offsets at which a 12-byte triple fits: 0, 2, ..., length-12
FittingOffsets(b) == {o \in 0..(Len(b) - 12) : o % 2 = 0}

\* the fitting offsets at which the triple of entry e is stored in b
StoredOffsets(b, e) ==
  {o \in FittingOffsets(b) :
     /\ getUint32(b, o) = e.entryIndex
     /\ getUint32(b, o + 4) = e.trackId
     /\ getUint32(b, o + 8) = e.playlistId}

Min(S) == CHOOSE x \in S : \A y \in S : x <= y

PairOf(e) == <<e.playlistId, e.trackId>>

Pairs(entries) == {PairOf(entries[i]) : i \in 1..Len(entries)}

\* no two entries of the list share (playlistId, trackId)
DistinctPairs(entries) ==
  \A i, j \in 1..Len(entries) : PairOf(entries[i]) = PairOf(entries[j]) => i = j

\* no two entries of the list share (playlistId, trackId, entryIndex)
DistinctTriples(entries) ==
  \A i, j \in 1..Len(entries) : KeyOf(entries[i]) = KeyOf(entries[j]) => i = j

\* every original entry is the content of exactly one row of the input
EachStoredOnce ==
  \A i \in 1..Len(originalEntries) :
     Cardinality(StoredOffsets(callBytes, originalEntries[i])) = 1

\* the ordinal the edited list gives to the pair of e (pairs distinct)
EditedOrdinal(e) ==
  LET j == CHOOSE j \in 1..Len(modifiedEntries) :
             PairOf(modifiedEntries[j]) = PairOf(e)
  IN modifiedEntries[j].entryIndex

\* instances of the pair of e in a list, and the rank of an ordinal among them
Instances(entries, e) ==
  {i \in 1..Len(entries) : PairOf(entries[i]) = PairOf(e)}

RankIn(entries, e, ordinal) ==
  Cardinality({i \in Instances(entries, e) : entries[i].entryIndex < ordinal})

\* the instances of every pair have pairwise distinct ordinals
DistinctOrdinalsPerPair(entries) == DistinctTriples(entries)

(***************************************************************************)
(* Properties of applyPlaylistModifications.                               *)
(***************************************************************************)
\* C1: when the edited entries equal the original entries, the returned
\* buffer is byte-for-byte the input buffer.
NoChangeRoundTrip ==
  (Returned /\ modifiedEntries = originalEntries) => Output = callBytes

\* a call with equal lists, two located instances of one track, listed in
\* descending ordinal order
NoChangeRoundTripWitness ==
  /\ Returned
  /\ modifiedEntries = originalEntries
  /\ Len(originalEntries) = 2
  /\ PairOf(originalEntries[1]) = PairOf(originalEntries[2])
  /\ originalEntries[1].entryIndex > originalEntries[2].entryIndex
  /\ \A i \in 1..2 : KeyOf(originalEntries[i]) \in DOMAIN locations

\* C2: the working buffer keeps the length of the input and differs from it
\* only inside the 4-byte ordinal field at an offset located for an
\* original entry.
OnlyLocatedOrdinalFieldsChange ==
  wpc # "idle" =>
    /\ Len(Output) = Len(callBytes)
    /\ \A k \in 1..Len(callBytes) :
         Output[k] # callBytes[k] =>
           \E i \in 1..Len(originalEntries) :
              /\ KeyOf(originalEntries[i]) \in DOMAIN locations
              /\ k - 1 >= locations[KeyOf(originalEntries[i])]
              /\ k - 1 < locations[KeyOf(originalEntries[i])] + 4

OnlyLocatedOrdinalFieldsChangeWitness ==
  /\ Returned
  /\ modCount = 2
  /\ Output # callBytes

\* C3: during and after the call the caller's buffer holds the bytes it held
\* at the call, the working buffer is another object, and no step assigns
\* the two entry lists.
CallerDataUntouched ==
  [][wpc # "idle" =>
       /\ buffer # originalBuffer
       /\ heap[originalBuffer] = callBytes
       /\ heap'[originalBuffer] = heap[originalBuffer]
       /\ originalEntries' = originalEntries
       /\ modifiedEntries' = modifiedEntries]_vars

CallerDataUntouchedWitness ==
  /\ Returned
  /\ modCount > 0
  /\ heap[buffer] # callBytes
  /\ heap[originalBuffer] = callBytes

\* C4 (as claimed): when every original entry is stored exactly once, the
\* pairs of the original list are distinct and the edited list holds the same
\* pairs with new ordinals, then every row holds its edited ordinal, the
\* modified count is the number of entries whose ordinal changed and no
\* entry is counted as not found.
IsReorder ==
  /\ DistinctPairs(originalEntries)
  /\ DistinctPairs(modifiedEntries)
  /\ Len(modifiedEntries) = Len(originalEntries)
  /\ Pairs(modifiedEntries) = Pairs(originalEntries)

ReorderWritesEditedOrdinals ==
  (Returned /\ EachStoredOnce /\ IsReorder) =>
    /\ \A i \in 1..Len(originalEntries) :
         LET e == originalEntries[i]
         IN getUint32(Output, Min(StoredOffsets(callBytes, e))) = EditedOrdinal(e)
    /\ modCount = Cardinality({i \in 1..Len(originalEntries) :
                     EditedOrdinal(originalEntries[i]) # originalEntries[i].entryIndex})
    /\ notFoundCount = 0

\* C5 (as claimed): when every original entry is stored exactly once, pairs
\* are distinct and the edited list lacks some pairs of the original list,
\* the rows of the lacking pairs keep their 12 bytes and the row of every
\* remaining entry holds its edited ordinal.
IsRemoval ==
  /\ DistinctPairs(originalEntries)
  /\ DistinctPairs(modifiedEntries)
  /\ Pairs(modifiedEntries) \subseteq Pairs(originalEntries)
  /\ Pairs(modifiedEntries) # Pairs(originalEntries)

RemovalKeepsRowAndRenumbersRest ==
  (Returned /\ EachStoredOnce /\ IsRemoval) =>
    \A i \in 1..Len(originalEntries) :
      LET e == originalEntries[i]
          o == Min(StoredOffsets(callBytes, e))
      IN IF PairOf(e) \in Pairs(modifiedEntries)
           THEN getUint32(Output, o) = EditedOrdinal(e)
           ELSE SubSeq(Output, o + 1, o + 12) = SubSeq(callBytes, o + 1, o + 12)

\* C6: when the instances of every (playlistId, trackId) have distinct
\* ordinals in both lists, a processed located original instance of rank k
\* (by ascending original ordinal) is matched to the edited instance of rank
\* k (by ascending edited ordinal), two distinct original instances are
\* matched to distinct edited entries, and an instance whose rank has no
\* edited instance is skipped without a write.
IsMatched(j) == matchLog[j].outcome \in {"written", "unchanged"}
IsLocated(j) == KeyOf(originalEntries[j]) \in DOMAIN locations

InstanceMatching ==
  (DistinctOrdinalsPerPair(originalEntries) /\ DistinctOrdinalsPerPair(modifiedEntries)) =>
    /\ \A j \in 1..Len(matchLog) :
         LET e == originalEntries[j]
             k == RankIn(originalEntries, e, e.entryIndex)
         IN IsLocated(j) =>
             IF k < Cardinality(Instances(modifiedEntries, e))
               THEN /\ IsMatched(j)
                    /\ PairOf(matchLog[j].target) = PairOf(e)
                    /\ RankIn(modifiedEntries, e, matchLog[j].target.entryIndex) = k
               ELSE ~IsMatched(j)
    /\ \A j1, j2 \in 1..Len(matchLog) :
         (j1 # j2 /\ IsMatched(j1) /\ IsMatched(j2))
           => matchLog[j1].target # matchLog[j2].target

\* two located instances of one track, listed out of order in both lists,
\* both matched, and the second-ranked one rewritten
InstanceMatchingWitness ==
  /\ Returned
  /\ Len(originalEntries) = 2
  /\ PairOf(originalEntries[1]) = PairOf(originalEntries[2])
  /\ originalEntries[1].entryIndex > originalEntries[2].entryIndex
  /\ Len(modifiedEntries) = 2
  /\ PairOf(modifiedEntries[1]) = PairOf(originalEntries[1])
  /\ PairOf(modifiedEntries[2]) = PairOf(originalEntries[1])
  /\ modifiedEntries[1].entryIndex > modifiedEntries[2].entryIndex
  /\ IsMatched(1) /\ IsMatched(2)

\* an instance whose rank has no edited instance is skipped
InstanceDeletedWitness ==
  /\ Returned
  /\ \E j \in 1..Len(matchLog) : matchLog[j].outcome = "instanceRemoved"

\* C7 (as claimed): every original entry whose triple is stored at an even
\* offset at which it fits (0, 2, ..., length-12) is located and is not
\* counted as not found.
ScanCoversEveryFittingOffset ==
  wpc # "idle" =>
    \A i \in 1..Len(matchLog) :
       StoredOffsets(callBytes, originalEntries[i]) # {}
         => /\ KeyOf(originalEntries[i]) \in DOMAIN locations
            /\ matchLog[i].outcome # "notFound"

(***************************************************************************)
(* BinaryReader: a read position over an immutable buffer.  A read returns *)
(* the value, the position after it and whether the DataView raised.       *)
(***************************************************************************)
\* DataView.getUint8 / getUint16 / getUint32 (little-endian) at pos
viewGet(b, pos, n) ==
  IF pos < 0 \/ pos + n > Len(b) THEN RangeError
  ELSE CASE n = 1 -> b[pos + 1]
         [] n = 2 -> b[pos + 1] + 256 * b[pos + 2]
         [] n = 4 -> b[pos + 1] + 256 * b[pos + 2] + 65536 * b[pos + 3]
                     + 16777216 * b[pos + 4]

\* a reader that believes every read fits
canReadAnything(b, pos, n) == TRUE

canRead(b, pos, n) == pos + n <= Len(b)

\* the body shared by readU8, readU16 and readU32
readUnsigned(b, pos, n) ==
  IF ~canRead(b, pos, n) THEN [value |-> 0, pos |-> pos, threw |-> FALSE]
  ELSE LET v == viewGet(b, pos, n)
       IN IF v = RangeError THEN [value |-> 0, pos |-> pos, threw |-> TRUE]
          ELSE [value |-> v, pos |-> pos + n, threw |-> FALSE]

readU8(b, pos)  == readUnsigned(b, pos, 1)
readU16(b, pos) == readUnsigned(b, pos, 2)
readU32(b, pos) == readUnsigned(b, pos, 4)

\* readBytes(length): the bytes, or the empty array when they do not fit
readBytes(b, pos, length) ==
  IF ~canRead(b, pos, length) THEN [value |-> <<>>, pos |-> pos, threw |-> FALSE]
  ELSE IF pos < 0 \/ pos + length > Len(b)
    THEN [value |-> <<>>, pos |-> pos, threw |-> TRUE]
  ELSE [value |-> SubSeq(b, pos + 1, pos + length), pos |-> pos + length,
        threw |-> FALSE]

\* consecutive reads of the given sizes (1, 2 or 4 bytes) starting at pos,
\* made in order; the list is halved only to keep the evaluation shallow
RECURSIVE ReadFields(_, _, _)
ReadFields(b, pos, sizes) ==
  IF sizes = <<>> THEN [values |-> <<>>, pos |-> pos, threw |-> FALSE]
  ELSE IF Len(sizes) = 1
    THEN Let(CASE sizes[1] = 1 -> readU8(b, pos)
               [] sizes[1] = 2 -> readU16(b, pos)
               [] sizes[1] = 4 -> readU32(b, pos),
           LAMBDA r :
             [values |-> IF r.threw THEN <<>> ELSE <<r.value>>,
              pos |-> r.pos, threw |-> r.threw])
  ELSE Let(ReadFields(b, pos, SubSeq(sizes, 1, Len(sizes) \div 2)),
         LAMBDA front :
           IF front.threw THEN front
           ELSE Let(ReadFields(b, front.pos,
                               SubSeq(sizes, Len(sizes) \div 2 + 1, Len(sizes))),
                  LAMBDA back :
                    [values |-> front.values \o back.values,
                     pos |-> back.pos, threw |-> back.threw]))

(***************************************************************************)
(* PDBParser: file header and table directory.                             *)
(***************************************************************************)
\* PageType
Tracks          == 0
Genres          == 1
Artists         == 2
Albums          == 3
Keys            == 5
Colors          == 6
PlaylistTree    == 7
PlaylistEntries == 8
Artwork         == 13

\* one iteration of the loop of lines 172-181; idle: the read position
\* stayed where it was
TablePointer(b, pos, dir) ==
  Let(ReadFields(b, pos, <<4, 4, 4, 4>>),
    LAMBDA r :
      IF r.threw
        THEN [tables |-> dir, pos |-> r.pos, threw |-> TRUE, idle |-> FALSE]
      ELSE LET type      == r.values[1]
               firstPage == r.values[3]
               lastPage  == r.values[4]
           IN [tables |-> IF firstPage # 0 \/ lastPage # 0
                            THEN (type :> [firstPage |-> firstPage,
                                           lastPage |-> lastPage]) @@ dir
                            ELSE dir,
               pos |-> r.pos, threw |-> FALSE, idle |-> r.pos = pos])

\* where the iterations from .. to - 1 are split (to - from > 1)
SplitAt(from, to) ==
  IF to - from > 16 THEN from + 8 ELSE from + (to - from) \div 2

\* Iterations i .. numTables - 1 of the loop of lines 172-181, in order.  An
\* idle iteration has read four zeros and set nothing, and so does every
\* later iteration: the remaining iterations are not unfolded.  The
\* iterations are split in two runs only to keep the evaluation shallow.
RECURSIVE ParseTablePointers(_, _, _, _, _)
ParseTablePointers(b, pos, i, numTables, dir) ==
  IF ~(i < numTables)
    THEN [tables |-> dir, pos |-> pos, threw |-> FALSE, idle |-> FALSE]
  ELSE IF numTables = i + 1 THEN TablePointer(b, pos, dir)
  ELSE Let(SplitAt(i, numTables),
         LAMBDA mid :
           Let(ParseTablePointers(b, pos, i, mid, dir),
             LAMBDA front :
               IF front.threw \/ front.idle THEN front
               ELSE ParseTablePointers(b, front.pos, mid, numTables,
                                       front.tables)))

\* constructor and parseHeader, lines 149-182
parseHeader(b) ==
  LET psize     == readU32(b, 4)
      numTables == readU32(b, 8)
      sequence  == readU32(b, 16)
  IN Let(ParseTablePointers(b, 28, 0, numTables.value, <<>>),
       LAMBDA pointers :
         [pageSize |-> psize.value,
          tables   |-> pointers.tables,
          threw    |-> psize.threw \/ numTables.threw \/ sequence.threw
                       \/ pointers.threw])

(***************************************************************************)
(* PDBParser: page header and page walk.                                   *)
(***************************************************************************)
maxPages == 100000
maxRows  == 10000

NoHeader == [present |-> FALSE]

\* lines 184-238
\* pageIndex * this.pageSize, line 185.  The product is a double; one that
\* lies beyond the buffer is only ever compared with the buffer's length
\* (line 188), so every such product is represented by the first of them.
PageOffset(b, psize, pageIndex) ==
  IF psize = 0 \/ pageIndex <= Len(b) \div psize THEN pageIndex * psize
  ELSE Len(b) + 1

parsePageHeader(b, psize, pageIndex) ==
  LET pageOffset == PageOffset(b, psize, pageIndex)
  IN IF pageOffset < 0 \/ pageOffset + 40 > Len(b)
       THEN [header |-> NoHeader, threw |-> FALSE]
     ELSE Let(ReadFields(b, pageOffset, <<4, 4, 4, 4, 4>>),
            LAMBDA first :
              Let(ReadFields(b, pageOffset + 20,
                             <<1, 1, 1, 1, 2, 2, 2, 2, 2, 2, 2>>),
                LAMBDA second :
                  IF first.threw \/ second.threw
                    THEN [header |-> NoHeader, threw |-> TRUE]
                  ELSE [header |-> [present        |-> TRUE,
                                    pageIndex      |-> pageIndex,
                                    type           |-> first.values[3],
                                    nextPage       |-> first.values[4],
                                    numRowsSmall   |-> second.values[1],
                                    numRowsLarge   |-> second.values[8],
                                    freeSize       |-> second.values[5],
                                    usedSize       |-> second.values[6],
                                    firstRowOffset |-> second.values[11],
                                    heapOffset     |-> pageOffset + 40],
                        threw |-> FALSE]))

\* line 255
SelectedRowCount(header) ==
  IF header.numRowsLarge > 0 THEN header.numRowsLarge ELSE header.numRowsSmall

\* a walker without the row-count ceiling
RowCountAccepted(numRows) == FALSE

\* line 258
RowCountRejected(numRows) == numRows > maxRows \/ numRows < 0

CeilDiv8(n) == (n + 7) \div 8

\* a walker that takes every slot for present
BitSetAlways(byte, bitIndex) == TRUE

BitSet(byte, bitIndex) ==
  (byte \div (CASE bitIndex = 0 -> 1 [] bitIndex = 1 -> 2 [] bitIndex = 2 -> 4
                [] bitIndex = 3 -> 8 [] bitIndex = 4 -> 16 [] bitIndex = 5 -> 32
                [] bitIndex = 6 -> 64 [] bitIndex = 7 -> 128)) % 2 = 1

\* What the body of the row loop (lines 275-300) does at slot rowIndex.
\* leaves: the loop is left there (a break, or a read raised); entered: the
\* slot passed the bitmap bound check of line 280.
RowSlot(b, pageOffset, numRows, rowIndex) ==
  LET bitmapOffset     == pageOffset + 40
      bitmapSize       == CeilDiv8(numRows)
      paddedBitmapSize == bitmapSize + (bitmapSize % 2)
      rowOffsetsStart  == bitmapOffset + paddedBitmapSize
      byteIndex        == rowIndex \div 8
      bitIndex         == rowIndex % 8
      slot(leaves, entered, threw, yields) ==
        [leaves |-> leaves, entered |-> entered, threw |-> threw,
         yields |-> yields]
  IN
  IF bitmapOffset + byteIndex >= Len(b) THEN slot(TRUE, FALSE, FALSE, <<>>)
  ELSE
    LET bitmapByte == readU8(b, bitmapOffset + byteIndex)
    IN
    IF bitmapByte.threw THEN slot(TRUE, TRUE, TRUE, <<>>)
    ELSE IF ~BitSet(bitmapByte.value, bitIndex)
      THEN slot(FALSE, TRUE, FALSE, <<>>)
    ELSE IF rowOffsetsStart + rowIndex * 2 + 2 > Len(b)
      THEN slot(TRUE, TRUE, FALSE, <<>>)
    ELSE
      LET rowOffset      == readU16(b, rowOffsetsStart + rowIndex * 2)
          absoluteOffset == pageOffset + rowOffset.value
      IN IF rowOffset.threw THEN slot(TRUE, TRUE, TRUE, <<>>)
         ELSE IF absoluteOffset > 0 /\ absoluteOffset < Len(b)
           THEN slot(FALSE, TRUE, FALSE,
                     <<[offset |-> absoluteOffset, pageOffset |-> pageOffset,
                        rowIndex |-> rowIndex]>>)
         ELSE slot(FALSE, TRUE, FALSE, <<>>)

\* The row loop of lines 274-301: the slots are visited in order, up to and
\* including the first one that leaves the loop.  The result is the rows
\* yielded, the number of slots entered and whether a read raised.
RowLoop(b, pageOffset, numRows) ==
  Let(CHOOSE n \in 0..numRows :
        /\ n = numRows \/ RowSlot(b, pageOffset, numRows, n).leaves
        /\ \A i \in 0..(n - 1) : ~RowSlot(b, pageOffset, numRows, i).leaves,
    LAMBDA last :
      Let([k \in 1..(IF last = numRows THEN last ELSE last + 1) |->
             RowSlot(b, pageOffset, numRows, k - 1)],
        LAMBDA visited :
          Let(SelectSeq(visited, LAMBDA s : s.yields # <<>>),
            LAMBDA yielding :
              [yields |-> [k \in 1..Len(yielding) |-> yielding[k].yields[1]],
               slots  |-> Cardinality({k \in 1..Len(visited) :
                                        visited[k].entered}),
               threw  |-> \E k \in 1..Len(visited) : visited[k].threw])))

\* One iteration of the while loop of lines 248-304 for page page.
\* stop: the loop is left by the break of line 252; skipped: line 258-261.
WalkPageStep(b, psize, page) ==
  Let(parsePageHeader(b, psize, page),
    LAMBDA h :
      LET none == [stop |-> TRUE, skipped |-> FALSE, numRows |-> 0,
                   yields |-> <<>>, slots |-> 0, nextPage |-> 0,
                   threw |-> h.threw]
      IN IF h.threw \/ ~h.header.present THEN none
         ELSE LET numRows == SelectedRowCount(h.header)
              IN IF RowCountRejected(numRows)
                   THEN [none EXCEPT !.stop = FALSE, !.skipped = TRUE,
                                     !.numRows = numRows,
                                     !.nextPage = h.header.nextPage]
                 ELSE Let(RowLoop(b, PageOffset(b, psize, page), numRows),
                        LAMBDA rows :
                          [stop |-> FALSE, skipped |-> FALSE,
                           numRows |-> numRows,
                           yields |-> rows.yields, slots |-> rows.slots,
                           nextPage |-> h.header.nextPage,
                           threw |-> rows.threw]))

(***************************************************************************)
(* readDeviceSqlString.  A string is the sequence of its UTF-16 code       *)
(* units.                                                                  *)
(***************************************************************************)
\* TextDecoder('ascii') is the windows-1252 decoder
Windows1252(byte) ==
  CASE byte = 128 -> 8364 [] byte = 130 -> 8218 [] byte = 131 -> 402
    [] byte = 132 -> 8222 [] byte = 133 -> 8230 [] byte = 134 -> 8224
    [] byte = 135 -> 8225 [] byte = 136 -> 710  [] byte = 137 -> 8240
    [] byte = 138 -> 352  [] byte = 139 -> 8249 [] byte = 140 -> 338
    [] byte = 142 -> 381  [] byte = 145 -> 8216 [] byte = 146 -> 8217
    [] byte = 147 -> 8220 [] byte = 148 -> 8221 [] byte = 149 -> 8226
    [] byte = 150 -> 8211 [] byte = 151 -> 8212 [] byte = 152 -> 732
    [] byte = 153 -> 8482 [] byte = 154 -> 353  [] byte = 155 -> 8250
    [] byte = 156 -> 339  [] byte = 158 -> 382  [] byte = 159 -> 376
    [] OTHER -> byte

DecodeAscii(bytes) == [k \in 1..Len(bytes) |-> Windows1252(bytes[k])]

ReplacementChar == 65533
ByteOrderMark   == 65279

IsHighSurrogate(u) == u >= 55296 /\ u <= 56319
IsLowSurrogate(u)  == u >= 56320 /\ u <= 57343

\* TextDecoder('utf-16le'): code units of the byte pairs; an unpaired
\* surrogate and a trailing odd byte become U+FFFD; a leading BOM is dropped
DecodeUtf16le(bytes) ==
  LET n     == Len(bytes) \div 2
      unit(k) == bytes[2 * k - 1] + 256 * bytes[2 * k]
      fixed(k) ==
        IF IsHighSurrogate(unit(k))
          THEN IF k < n /\ IsLowSurrogate(unit(k + 1)) THEN unit(k)
               ELSE ReplacementChar
        ELSE IF IsLowSurrogate(unit(k))
          THEN IF k > 1 /\ IsHighSurrogate(unit(k - 1)) THEN unit(k)
               ELSE ReplacementChar
        ELSE unit(k)
      units == [k \in 1..n |-> fixed(k)]
      whole == IF Len(bytes) % 2 = 1 THEN Append(units, ReplacementChar)
               ELSE units
  IN IF whole # <<>> /\ whole[1] = ByteOrderMark THEN Tail(whole) ELSE whole

\* a decoder that keeps the trailing NULs
KeepTrailingNuls(str) == str

\* String.prototype.replace(/\0+$/, '')
StripTrailingNuls(str) ==
  SubSeq(str, 1, CHOOSE n \in 0..Len(str) :
                   /\ n = 0 \/ str[n] # 0
                   /\ \A k \in (n + 1)..Len(str) : str[k] = 0)

EmptyString == <<>>

\* a reader without the null-string convention
IsNullStringNever(stringOffset) == FALSE

\* line 103: relative offset 0 is the null string
IsNullString(stringOffset) == stringOffset = 0

\* lines 102-141; an exception inside the try block yields the empty string
\* half the tag, less one
FallbackCountOfHalf(tag) == tag \div 2 - 1

\* Math.floor((lengthByte - 1) / 2 - 1) of lines 131-133
FallbackCount(tag) == (tag - 1) \div 2 - 1

readDeviceSqlString(b, baseOffset, stringOffset) ==
  LET stringPos  == baseOffset + stringOffset
      lengthByte == readU8(b, stringPos)
      tag        == lengthByte.value
      at         == lengthByte.pos
  IN
  IF IsNullString(stringOffset) THEN [value |-> EmptyString, threw |-> FALSE]
  ELSE IF stringPos >= Len(b) \/ stringPos < 0
    THEN [value |-> EmptyString, threw |-> FALSE]
  ELSE IF lengthByte.threw THEN [value |-> EmptyString, threw |-> TRUE]
  ELSE IF tag = 64 THEN
    LET length == readU8(b, at)
        bytes  == readBytes(b, length.pos, length.value)
    IN IF length.threw \/ length.value = 0
          \/ ~canRead(b, length.pos, length.value) \/ bytes.threw
         THEN [value |-> EmptyString, threw |-> FALSE]
       ELSE [value |-> DecodeAscii(bytes.value), threw |-> FALSE]
  ELSE IF tag = 144 THEN
    LET length == readU16(b, at)
        bytes  == readBytes(b, length.pos, length.value)
    IN IF length.threw \/ length.value = 0
          \/ ~canRead(b, length.pos, length.value) \/ bytes.threw
         THEN [value |-> EmptyString, threw |-> FALSE]
       ELSE [value |-> DecodeUtf16le(bytes.value), threw |-> FALSE]
  ELSE IF tag < 64 THEN
    LET length == tag \div 2
        bytes  == readBytes(b, at, length)
    IN IF length = 0 \/ ~canRead(b, at, length) \/ bytes.threw
         THEN [value |-> EmptyString, threw |-> FALSE]
       ELSE [value |-> StripTrailingNuls(DecodeAscii(bytes.value)),
             threw |-> FALSE]
  ELSE
    \* length = (tag - 1) / 2 - 1 is a fraction when tag is even:
    \* twice the length is tag - 3 and Math.floor(length) is the quotient
    LET twice   == tag - 3
        floored == FallbackCount(tag)
        bytes   == readBytes(b, at, floored)
    IN IF twice <= 0 \/ twice > 254 \/ ~canRead(b, at, floored) \/ bytes.threw
         THEN [value |-> EmptyString, threw |-> FALSE]
       ELSE [value |-> StripTrailingNuls(DecodeAscii(bytes.value)),
             threw |-> FALSE]

(***************************************************************************)
(* Row decoders, lines 307-495.  Each returns the decoded row and whether  *)
(* a read raised (the caller's try/catch then skips the row).              *)
(***************************************************************************)
\* `x || 0`, `x || 9`: the default replaces a zero
OrElse(x, default) == IF x = 0 THEN default ELSE x

Repeat(x, n) == [k \in 1..n |-> x]

numStrings == 21

\* a decoder that takes each string from the slot after its own
TrackStringSlotShifted(name) ==
  CASE name = "title" -> 17 [] name = "fileName" -> 19
    [] name = "filePath" -> 20 [] name = "comment" -> 16
    [] name = "dateAdded" -> 10

\* lines 367-371: the slot of the string-offset table each string comes from
TrackStringSlot(name) ==
  CASE name = "title" -> 16 [] name = "fileName" -> 18
    [] name = "filePath" -> 19 [] name = "comment" -> 15
    [] name = "dateAdded" -> 9

parseTrack(b, offset) ==
  LET f1 == ReadFields(b, offset, <<2, 2, 4, 4, 4, 4>>)
      f2 == ReadFields(b, offset + 20, Repeat(4, 12))
      f3 == ReadFields(b, offset + 68, <<2, 2, 2, 2, 2>>)
      f4 == ReadFields(b, offset + 78, <<2, 1, 1>>)
      subtype        == f1.values[1]
      useLongOffsets == (subtype \div 4) % 2 = 1
      f5 == IF useLongOffsets
              THEN ReadFields(b, offset + 82, Repeat(2, numStrings))
              ELSE LET near == readU8(b, offset + 82)
                       rest == ReadFields(b, near.pos, Repeat(2, numStrings))
                   IN [rest EXCEPT !.threw = @ \/ near.threw]
      early == f1.threw \/ f2.threw \/ f3.threw \/ f4.threw \/ f5.threw
      stringOffsets == f5.values
      str(slot) == readDeviceSqlString(b, offset, OrElse(stringOffsets[slot + 1], 0))
      title     == str(TrackStringSlot("title"))
      fileName  == str(TrackStringSlot("fileName"))
      filePath  == str(TrackStringSlot("filePath"))
      comment   == str(TrackStringSlot("comment"))
      dateAdded == str(TrackStringSlot("dateAdded"))
  IN IF early THEN [threw |-> TRUE]
     ELSE IF title.threw \/ fileName.threw \/ filePath.threw \/ comment.threw
             \/ dateAdded.threw THEN [threw |-> TRUE]
     ELSE [threw |-> FALSE,
           row |-> [id |-> f2.values[12], title |-> title.value,
                    artistId |-> f2.values[11], albumId |-> f2.values[10],
                    genreId |-> f2.values[9], keyId |-> f2.values[2],
                    duration |-> f3.values[5], tempo |-> f2.values[8],
                    rating |-> f4.values[3], colorId |-> f4.values[2],
                    bitrate |-> f2.values[6], sampleRate |-> f1.values[4],
                    fileSize |-> f1.values[6], filePath |-> filePath.value,
                    fileName |-> fileName.value, trackNumber |-> f2.values[7],
                    discNumber |-> f3.values[1], year |-> f3.values[3],
                    comment |-> comment.value, dateAdded |-> dateAdded.value,
                    artworkId |-> f2.values[1],
                    useLongOffsets |-> useLongOffsets,
                    stringOffsets |-> stringOffsets]]

parseArtist(b, offset) ==
  LET f == ReadFields(b, offset, <<2, 2, 4, 1>>)
      name == readDeviceSqlString(b, offset, OrElse(f.values[4], 9))
  IN IF f.threw THEN [threw |-> TRUE]
     ELSE IF name.threw THEN [threw |-> TRUE]
     ELSE [threw |-> FALSE, row |-> [id |-> f.values[3], name |-> name.value]]

parseAlbum(b, offset) ==
  LET f == ReadFields(b, offset, <<2, 2, 4, 4, 1>>)
      name == readDeviceSqlString(b, offset, OrElse(f.values[5], 13))
  IN IF f.threw THEN [threw |-> TRUE]
     ELSE IF name.threw THEN [threw |-> TRUE]
     ELSE [threw |-> FALSE,
           row |-> [id |-> f.values[4], name |-> name.value,
                    artistId |-> f.values[3]]]

parseGenre(b, offset) ==
  LET f == ReadFields(b, offset, <<4>>)
      name == readDeviceSqlString(b, offset, 5)
  IN IF f.threw \/ name.threw THEN [threw |-> TRUE]
     ELSE [threw |-> FALSE, row |-> [id |-> f.values[1], name |-> name.value]]

parseKey(b, offset) ==
  LET f == ReadFields(b, offset, <<4, 4>>)
      name == readDeviceSqlString(b, offset, 9)
  IN IF f.threw \/ name.threw THEN [threw |-> TRUE]
     ELSE [threw |-> FALSE, row |-> [id |-> f.values[1], name |-> name.value]]

parseColor(b, offset) ==
  LET f == ReadFields(b, offset, <<4, 1, 1>>)
      name == readDeviceSqlString(b, offset, 6)
  IN IF f.threw \/ name.threw THEN [threw |-> TRUE]
     ELSE [threw |-> FALSE, row |-> [id |-> f.values[2], name |-> name.value]]

parseArtwork(b, offset) ==
  LET f == ReadFields(b, offset, <<4>>)
      path == readDeviceSqlString(b, offset, 5)
  IN IF f.threw \/ path.threw THEN [threw |-> TRUE]
     ELSE [threw |-> FALSE, row |-> [id |-> f.values[1], path |-> path.value]]

parsePlaylistTreeNode(b, offset) ==
  LET f == ReadFields(b, offset, <<4, 4, 4, 4>>)
      name == readDeviceSqlString(b, offset, 17)
  IN IF f.threw \/ name.threw THEN [threw |-> TRUE]
     ELSE [threw |-> FALSE,
           row |-> [id |-> f.values[3], parentId |-> f.values[1],
                    name |-> name.value, isFolder |-> f.values[4] # 0,
                    sortOrder |-> f.values[2]]]

parsePlaylistEntry(b, offset) ==
  LET f == ReadFields(b, offset, <<4, 4, 4>>)
  IN IF f.threw THEN [threw |-> TRUE]
     ELSE [threw |-> FALSE,
           row |-> Entry(f.values[3], f.values[2], f.values[1])]

(***************************************************************************)
(* parse, lines 497-645.                                                   *)
(***************************************************************************)
EmptyDatabase ==
  [tracks |-> <<>>, artists |-> <<>>, albums |-> <<>>, genres |-> <<>>,
   keys |-> <<>>, colors |-> <<>>, artworks |-> <<>>, playlistTree |-> <<>>,
   playlistEntries |-> <<>>]

\* a parse that decodes the tracks before the tables they refer to
TableOrderTracksFirst ==
  <<Tracks, Artists, Albums, Genres, Keys, Colors, Artwork, PlaylistTree,
    PlaylistEntries>>

\* the order in which parse walks the tables
TableOrder ==
  <<Artists, Albums, Genres, Keys, Colors, Artwork, Tracks, PlaylistTree,
    PlaylistEntries>>

\* Map.set
MapSet(map, key, value) == (key :> value) @@ map

\* `map.get(id || 0)?.name || ''`
ResolveName(map, id) ==
  IF OrElse(id, 0) \in DOMAIN map THEN map[OrElse(id, 0)].name ELSE EmptyString

\* the body of one for-of iteration: decode the row at offset and store it
StoreRow(dbase, b, type, offset) ==
  CASE type = Artists ->
         Let(parseArtist(b, offset),
           LAMBDA r :
             IF r.threw THEN dbase
             ELSE [dbase EXCEPT !.artists = MapSet(@, r.row.id, r.row)])
    [] type = Albums ->
         Let(parseAlbum(b, offset),
           LAMBDA r :
             IF r.threw THEN dbase
             ELSE [dbase EXCEPT !.albums = MapSet(@, r.row.id, r.row)])
    [] type = Genres ->
         Let(parseGenre(b, offset),
           LAMBDA r :
             IF r.threw THEN dbase
             ELSE [dbase EXCEPT !.genres = MapSet(@, r.row.id, r.row)])
    [] type = Keys ->
         Let(parseKey(b, offset),
           LAMBDA r :
             IF r.threw THEN dbase
             ELSE [dbase EXCEPT !.keys = MapSet(@, r.row.id, r.row)])
    [] type = Colors ->
         Let(parseColor(b, offset),
           LAMBDA r :
             IF r.threw THEN dbase
             ELSE [dbase EXCEPT !.colors = MapSet(@, r.row.id, r.row)])
    [] type = Artwork ->
         Let(parseArtwork(b, offset),
           LAMBDA r :
             IF r.threw THEN dbase
             ELSE [dbase EXCEPT !.artworks = MapSet(@, r.row.id, r.row)])
    [] type = Tracks ->
         Let(parseTrack(b, offset),
           LAMBDA r :
             IF r.threw THEN dbase
             ELSE [dbase EXCEPT !.tracks = MapSet(@, r.row.id,
                     [id |-> r.row.id, title |-> r.row.title,
                      artistId |-> r.row.artistId, albumId |-> r.row.albumId,
                      genreId |-> r.row.genreId, keyId |-> r.row.keyId,
                      duration |-> r.row.duration, tempo |-> r.row.tempo,
                      rating |-> r.row.rating, colorId |-> r.row.colorId,
                      bitrate |-> r.row.bitrate, sampleRate |-> r.row.sampleRate,
                      fileSize |-> r.row.fileSize, filePath |-> r.row.filePath,
                      fileName |-> r.row.fileName,
                      trackNumber |-> r.row.trackNumber,
                      discNumber |-> r.row.discNumber, year |-> r.row.year,
                      comment |-> r.row.comment, dateAdded |-> r.row.dateAdded,
                      artworkId |-> r.row.artworkId,
                      artist |-> ResolveName(dbase.artists, r.row.artistId),
                      album |-> ResolveName(dbase.albums, r.row.albumId),
                      genre |-> ResolveName(dbase.genres, r.row.genreId),
                      key |-> ResolveName(dbase.keys, r.row.keyId)])])
    [] type = PlaylistTree ->
         Let(parsePlaylistTreeNode(b, offset),
           LAMBDA r :
             IF r.threw THEN dbase
             ELSE [dbase EXCEPT !.playlistTree = MapSet(@, r.row.id, r.row)])
    [] type = PlaylistEntries ->
         Let(parsePlaylistEntry(b, offset),
           LAMBDA r :
             IF r.threw THEN dbase
             ELSE [dbase EXCEPT !.playlistEntries = Append(@, r.row)])

\* the rows yielded by one page, decoded and stored in yield order; the list
\* is halved only to keep the evaluation shallow
RECURSIVE StoreRows(_, _, _, _)
StoreRows(dbase, b, type, yields) ==
  IF yields = <<>> THEN dbase
  ELSE IF Len(yields) = 1 THEN StoreRow(dbase, b, type, yields[1].offset)
  ELSE Let(StoreRows(dbase, b, type, SubSeq(yields, 1, Len(yields) \div 2)),
         LAMBDA stored :
           StoreRows(stored, b, type,
                     SubSeq(yields, Len(yields) \div 2 + 1, Len(yields))))

\* iterateTableRows starts at the first page of a table of the directory
FirstPageOf(dir, type) ==
  IF type \in DOMAIN dir THEN dir[type].firstPage ELSE 0

\* the while condition of line 248
WalkContinues(page, count) == page # 0 /\ count < maxPages

\* the whole walk of one table (for-of loop and generator together)
RECURSIVE ParseTable(_, _, _, _, _, _)
ParseTable(dbase, b, psize, type, page, count) ==
  IF ~WalkContinues(page, count) THEN dbase
  ELSE Let(WalkPageStep(b, psize, page),
         LAMBDA step :
           Let(StoreRows(dbase, b, type, step.yields),
             LAMBDA dbase2 :
               IF step.threw \/ step.stop THEN dbase2
               ELSE ParseTable(dbase2, b, psize, type, step.nextPage,
                               count + 1)))

RECURSIVE ParseTables(_, _, _, _)
ParseTables(dbase, b, hdr, k) ==
  IF k > Len(TableOrder) THEN dbase
  ELSE Let(ParseTable(dbase, b, hdr.pageSize, TableOrder[k],
                      FirstPageOf(hdr.tables, TableOrder[k]), 0),
         LAMBDA walked : ParseTables(walked, b, hdr, k + 1))

\* new PDBParser(buffer).parse() for a buffer whose header does not raise
ParseDatabase(b) ==
  Let(parseHeader(b), LAMBDA hdr : ParseTables(EmptyDatabase, b, hdr, 1))

(***************************************************************************)
(* Input files of the parser: two well-formed files and their damaged      *)
(* variants.                                                               *)
(***************************************************************************)
LE16(n) == <<Byte(n, 0), Byte(n, 1)>>

\* b with the given bytes written at offset (inside b only)
Put(b, offset, bytes) ==
  [k \in 1..Len(b) |->
     IF k - 1 >= offset /\ k - 1 < offset + Len(bytes) THEN bytes[k - offset]
     ELSE b[k]]

PadTo(bytes, n) == bytes \o Zeros(n - Len(bytes))

\* the 28-byte file header followed by the table directory
FileHeaderBytes(size, directory) ==
  LET entry(k) == LE32(directory[k][1]) \o LE32(0) \o LE32(directory[k][2])
                  \o LE32(directory[k][3])
      RECURSIVE entries(_)
      entries(k) == IF k > Len(directory) THEN <<>> ELSE entry(k) \o entries(k + 1)
  IN LE32(0) \o LE32(size) \o LE32(Len(directory)) \o LE32(0) \o LE32(1)
     \o LE32(0) \o LE32(0) \o entries(1)

\* the 40-byte page header
PageHeaderBytes(pageIndex, type, nextPage, small, large) ==
  LE32(0) \o LE32(pageIndex) \o LE32(type) \o LE32(nextPage) \o LE32(0)
  \o <<small, 0, 0, 36>> \o LE16(0) \o LE16(0) \o LE16(0) \o LE16(large)
  \o LE16(0) \o LE16(0) \o LE16(0) \o LE16(0)

RECURSIVE Concat(_)
Concat(seqs) == IF seqs = <<>> THEN <<>> ELSE Head(seqs) \o Concat(Tail(seqs))

RECURSIVE RowOffsetsFrom(_, _)
RowOffsetsFrom(start, rows) ==
  IF rows = <<>> THEN <<>>
  ELSE LE16(start) \o RowOffsetsFrom(start + Len(Head(rows)), Tail(rows))

\* a page of size bytes whose rows are all present (at most 8 rows)
PageBytes(size, pageIndex, type, nextPage, rows) ==
  LET n      == Len(rows)
      bitmap == IF n = 0 THEN <<>>
                ELSE <<(CASE n = 1 -> 1 [] n = 2 -> 3 [] n = 3 -> 7 [] n = 4 -> 15
                          [] n = 5 -> 31 [] n = 6 -> 63 [] n = 7 -> 127
                          [] n = 8 -> 255), 0>>
      start  == 40 + Len(bitmap) + 2 * n
  IN PadTo(PageHeaderBytes(pageIndex, type, nextPage, n, 0) \o bitmap
           \o RowOffsetsFrom(start, rows) \o Concat(rows), size)

\* rows as the decoders read them; a name is a short ASCII string
ShortString(chars) == <<2 * Len(chars) + (IF Len(chars) > 0 THEN 1 ELSE 0)>> \o chars

ArtistRow(id, chars) == LE16(96) \o LE16(0) \o LE32(id) \o <<9>> \o ShortString(chars)
AlbumRow(id, artistId, chars) ==
  LE16(128) \o LE16(0) \o LE32(artistId) \o LE32(id) \o <<13>> \o ShortString(chars)
GenreRow(id, chars) == LE32(id) \o <<0>> \o ShortString(chars)
KeyRow(id, chars) == LE32(id) \o LE32(id) \o <<0>> \o ShortString(chars)
ColorRow(id, chars) == LE32(0) \o <<id, 0>> \o ShortString(chars)
ArtworkRow(id, chars) == LE32(id) \o <<0>> \o ShortString(chars)
PlaylistTreeRow(id, parentId, isFolder, chars) ==
  LE32(parentId) \o LE32(0) \o LE32(id) \o LE32(isFolder) \o <<0>> \o ShortString(chars)

\* a track row in the short layout (subtype bit 2 clear) or the long one;
\* the title follows the 21 string offsets, the other strings are null
TrackRow(long, id, artistId, albumId, genreId, keyId, chars) ==
  LET base    == IF long THEN 82 ELSE 83
      titleAt == base + 2 * numStrings
      slots   == [k \in 1..numStrings |-> IF k = 17 THEN titleAt ELSE 0]
      RECURSIVE slotBytes(_)
      slotBytes(k) == IF k > numStrings THEN <<>> ELSE LE16(slots[k]) \o slotBytes(k + 1)
  IN LE16(IF long THEN 36 ELSE 32) \o LE16(0) \o LE32(0) \o LE32(44100) \o LE32(0)
     \o LE32(1000)
     \o LE32(0) \o LE32(keyId) \o LE32(0) \o LE32(0) \o LE32(0) \o LE32(320)
     \o LE32(1) \o LE32(12800) \o LE32(genreId) \o LE32(albumId)
     \o LE32(artistId) \o LE32(id)
     \o LE16(1) \o LE16(0) \o LE16(2020) \o LE16(16) \o LE16(180)
     \o LE16(0) \o <<0, 3>>
     \o (IF long THEN <<>> ELSE <<0>>) \o slotBytes(1) \o ShortString(chars)

\* ---- the small file: artists on pages 1-2, playlist entries on pages 3-4
SmallPage == 72

SmallFile ==
  PadTo(FileHeaderBytes(SmallPage, <<<<Artists, 1, 2>>, <<PlaylistEntries, 3, 4>>>>),
        SmallPage)
  \o PageBytes(SmallPage, 1, Artists, 2, <<ArtistRow(1, <<65>>), ArtistRow(2, <<66>>)>>)
  \o PageBytes(SmallPage, 2, Artists, 0, <<ArtistRow(3, <<67>>)>>)
  \o PageBytes(SmallPage, 3, PlaylistEntries, 4,
               <<RowBytes(Entry(1, 1, 0)), RowBytes(Entry(1, 2, 1))>>)
  \o PageBytes(SmallPage, 4, PlaylistEntries, 0, <<RowBytes(Entry(2, 1, 0))>>)

\* ---- the full file: one page for each of the nine tables
FullPage == 184

FullFile ==
  PadTo(FileHeaderBytes(FullPage,
          <<<<Tracks, 7, 7>>, <<Genres, 3, 3>>, <<Artists, 1, 1>>,
            <<Albums, 2, 2>>, <<Keys, 4, 4>>, <<Colors, 5, 5>>,
            <<PlaylistTree, 8, 8>>, <<PlaylistEntries, 9, 9>>,
            <<Artwork, 6, 6>>>>), FullPage)
  \o PageBytes(FullPage, 1, Artists, 0, <<ArtistRow(1, <<65>>)>>)
  \o PageBytes(FullPage, 2, Albums, 0, <<AlbumRow(1, 1, <<76>>)>>)
  \o PageBytes(FullPage, 3, Genres, 0, <<GenreRow(1, <<71>>)>>)
  \o PageBytes(FullPage, 4, Keys, 0, <<KeyRow(1, <<75>>)>>)
  \o PageBytes(FullPage, 5, Colors, 0, <<ColorRow(1, <<82>>)>>)
  \o PageBytes(FullPage, 6, Artwork, 0, <<ArtworkRow(1, <<47>>)>>)
  \o PageBytes(FullPage, 7, Tracks, 0,
               <<TrackRow(FALSE, 1, 1, 1, 1, 1, <<84>>)>>)
  \o PageBytes(FullPage, 8, PlaylistTree, 0, <<PlaylistTreeRow(1, 0, 0, <<80>>)>>)
  \o PageBytes(FullPage, 9, PlaylistEntries, 0, <<RowBytes(Entry(1, 1, 0))>>)

\* ---- damage: one field overwritten, or the file cut short
\* a patch is <<offset, bytes>>
Page1 == SmallPage
Page2 == 2 * SmallPage

HeaderPatches ==
  {<<4, LE32(v)>> : v \in {0, 1, 36, 4096}}                \* page size
  \cup {<<8, LE32(v)>> : v \in {0, 1, 3, 1000000}}         \* table count
  \cup {<<36, LE32(v)>> : v \in {0, 2, 4, 6, 70000}}       \* artists first page
  \cup {<<40, LE32(v)>> : v \in {0, 1}}                    \* artists last page

\* links that leave the chain of the artists table acyclic
LinkPatches ==
  {<<Page1 + 12, LE32(v)>> : v \in {0, 3, 4, 5, 70000}}    \* page 1 nextPage
  \cup {<<Page2 + 12, LE32(v)>> : v \in {3, 6}}            \* page 2 nextPage

\* links that close a cycle: page 1 -> page 1, and page 1 -> page 2 -> page 1
CyclicPatches == {<<Page1 + 12, LE32(1)>>, <<Page2 + 12, LE32(1)>>}

RowCountPatches ==
  {<<Page1 + 20, <<v>>>> : v \in {0, 1, 3, 9, 33}}          \* small row count
  \cup {<<Page1 + 30, LE16(v)>> :
          v \in {1, 2, 3, 17, 10000, 10001, 65535}}        \* large row count

BitmapPatches == {<<Page1 + 40, <<v>>>> : v \in {0, 1, 2, 127}}

RowOffsetPatches ==
  {<<Page1 + 42, LE16(v)>> : v \in {0, 40, 57, 71, 300, 65535}}

StringPatches ==
  {<<Page1 + 46 + 8, <<v>>>> : v \in {0, 10, 26, 255}}     \* ofsNameNear
  \cup {<<Page1 + 46 + 9, <<v>>>> : v \in {0, 2, 5, 63, 64, 65, 127, 144, 255}}

SinglePatches ==
  HeaderPatches \cup LinkPatches \cup RowCountPatches \cup BitmapPatches
  \cup RowOffsetPatches \cup StringPatches

Cuts == {0, 1, 3, 4, 7, 8, 11, 12, 27, 28, 31, 44, 59, 60, 71,
         Page1 + 39, Page1 + 40, Page1 + 41, Page1 + 43, Page1 + 46,
         Page1 + 50, Page1 + 55, Page1 + 56, Page1 + 57, Page1 + 71,
         Page2 + 40, Page2 + 44, Page2 + 54, 3 * SmallPage + 50,
         4 * SmallPage + 40, 4 * SmallPage + 55}

Patched(b, patch) == Put(b, patch[1], patch[2])

ParserFiles ==
  {SmallFile, FullFile}
  \cup {Patched(SmallFile, q) : q \in SinglePatches}
  \cup {Patched(Patched(SmallFile, q1), q2) :
          q1 \in LinkPatches \cup RowCountPatches, q2 \in LinkPatches \cup BitmapPatches}
  \cup {SubSeq(SmallFile, 1, n) : n \in Cuts}
  \cup {SubSeq(FullFile, 1, n) :
          n \in {7 * FullPage + 40, 7 * FullPage + 100, 7 * FullPage + 130,
                 8 * FullPage + 60}}

(***************************************************************************)
(* The parse, step by step.                                                *)
(***************************************************************************)
\* no row decoder and no page walk raises
NoFaults == [rows |-> {}, pages |-> {}]

NoStep == [numRows |-> 0, slots |-> 0, skipped |-> FALSE, stop |-> FALSE,
           yields |-> <<>>, page |-> 0]

ParserStarts(files) ==
  /\ ppc = "new"
  /\ pbuf \in files
  /\ pageSize = 4096
  /\ tables = <<>>
  /\ tableIdx = 0
  /\ currentPage = 0
  /\ pageCount = 0
  /\ walking = FALSE
  /\ db = EmptyDatabase
  /\ lastStep = NoStep
  /\ faults = NoFaults
  /\ WriterIdle
  /\ AppIdle
  /\ EditorIdle
  /\ ReaderIdle

InitParser == ParserStarts(ParserFiles)

\* new PDBParser(buffer): lines 149-182; an exception leaves the constructor
Construct ==
  /\ ppc = "new"
  /\ \E hdr \in {parseHeader(pbuf)} :
        IF hdr.threw
          THEN /\ ppc' = "threw"
               /\ UNCHANGED <<pageSize, tables>>
          ELSE /\ ppc' = "constructed"
               /\ pageSize' = hdr.pageSize
               /\ tables' = hdr.tables
  /\ UNCHANGED <<faults, pbuf, tableIdx, currentPage, pageCount, walking, db, lastStep>>
  /\ UNCHANGED <<wvars, avars, rvars, evars>>

\* parse() reaches the for-of loop of the next table: lines 241-246
StartTable ==
  /\ ppc \in {"constructed", "walk"}
  /\ ~walking
  /\ tableIdx < Len(TableOrder)
  /\ ppc' = "walk"
  /\ tableIdx' = tableIdx + 1
  /\ IF TableOrder[tableIdx + 1] \in DOMAIN tables
       THEN /\ walking' = TRUE
            /\ currentPage' = tables[TableOrder[tableIdx + 1]].firstPage
       ELSE /\ walking' = FALSE
            /\ currentPage' = 0
  /\ pageCount' = 0
  /\ UNCHANGED <<faults, pbuf, pageSize, tables, db, lastStep>>
  /\ UNCHANGED <<wvars, avars, rvars, evars>>

\* the first row decoder that raises ends the for-of loop
RowsDecodedUntilFailure(yields, failing) ==
  SubSeq(yields, 1,
         Min({k \in 1..Len(yields) : yields[k].offset \in failing}
             \cup {Len(yields) + 1}) - 1)

\* the inner try/catch of the for-of bodies (lines 514-520 and alike): a
\* row whose decoder raises is skipped, the loop goes on with the next row
RowsDecoded(yields, failing) ==
  SelectSeq(yields, LAMBDA y : y.offset \notin failing)

\* the generator raises while it reads the header of this page; the outer
\* try/catch of the table (lines 521-523 and alike) ends the walk
WalkerRaises(plan, page) == page \in plan.pages

\* one iteration of the while loop of iterateTableRows together with the
\* for-of bodies of the rows it yields: lines 248-304
WalkPage ==
  /\ ppc = "walk"
  /\ walking
  /\ WalkContinues(currentPage, pageCount)
  /\ \E step \in {WalkPageStep(pbuf, pageSize, currentPage)} :
        /\ db' = IF WalkerRaises(faults, currentPage) THEN db
                 ELSE StoreRows(db, pbuf, TableOrder[tableIdx],
                                RowsDecoded(step.yields, faults.rows))
        /\ lastStep' = [numRows |-> step.numRows, slots |-> step.slots,
                        skipped |-> step.skipped, stop |-> step.stop,
                        yields |-> step.yields, page |-> currentPage]
        /\ IF step.threw \/ step.stop \/ WalkerRaises(faults, currentPage)
             THEN /\ walking' = FALSE
                  /\ UNCHANGED currentPage
             ELSE /\ walking' = TRUE
                  /\ currentPage' = step.nextPage
  /\ pageCount' = pageCount + 1
  /\ UNCHANGED <<faults, ppc, pbuf, pageSize, tables, tableIdx>>
  /\ UNCHANGED <<wvars, avars, rvars, evars>>

\* the while condition fails: the generator returns
EndWalk ==
  /\ ppc = "walk"
  /\ walking
  /\ ~WalkContinues(currentPage, pageCount)
  /\ walking' = FALSE
  /\ UNCHANGED <<faults, ppc, pbuf, pageSize, tables, tableIdx, currentPage, pageCount,
                 db, lastStep>>
  /\ UNCHANGED <<wvars, avars, rvars, evars>>

\* line 644
ParseReturn ==
  /\ ppc \in {"constructed", "walk"}
  /\ ~walking
  /\ tableIdx = Len(TableOrder)
  /\ ppc' = "returned"
  /\ UNCHANGED <<faults, pbuf, pageSize, tables, tableIdx, currentPage, pageCount,
                 walking, db, lastStep>>
  /\ UNCHANGED <<wvars, avars, rvars, evars>>

NextParser == Construct \/ StartTable \/ WalkPage \/ EndWalk \/ ParseReturn

SpecParser == InitParser /\ [][NextParser]_vars

\* ---- parses in which row decoders and page walks raise
\* the rows the pages of a file yield
YieldedOffsets(b) ==
  UNION {{WalkPageStep(b, parseHeader(b).pageSize, p).yields[k].offset :
            k \in 1..Len(WalkPageStep(b, parseHeader(b).pageSize, p).yields)} :
          p \in 1..(Len(b) \div parseHeader(b).pageSize - 1)}

MaxFailingRows == 2

\* at most MaxFailingRows decoders and the walk of at most one page raise
FaultPlans(b) ==
  {[rows |-> rows, pages |-> pages] :
     rows \in {r \in SUBSET YieldedOffsets(b) : Cardinality(r) <= MaxFailingRows},
     pages \in {{}} \cup {{p} : p \in 1..(Len(b) \div parseHeader(b).pageSize - 1)}}

InitFaults ==
  /\ ppc = "new"
  /\ pbuf \in {SmallFile, FullFile}
  /\ pageSize = 4096
  /\ tables = <<>>
  /\ tableIdx = 0
  /\ currentPage = 0
  /\ pageCount = 0
  /\ walking = FALSE
  /\ db = EmptyDatabase
  /\ lastStep = NoStep
  /\ faults \in FaultPlans(pbuf)
  /\ WriterIdle
  /\ AppIdle
  /\ EditorIdle
  /\ ReaderIdle

SpecFaults == InitFaults /\ [][NextParser]_vars

\* ---- page walks over chains with and without cycles
WalkFiles ==
  {SmallFile}
  \cup {Patched(SmallFile, q) : q \in CyclicPatches \cup LinkPatches}
  \cup {Patched(SmallFile, <<Page1 + 30, LE16(v)>>) : v \in {10000, 10001, 65535}}

InitWalk == ParserStarts(WalkFiles)

SpecWalk == InitWalk /\ [][NextParser]_vars

(***************************************************************************)
(* Properties of the reader.                                               *)
(***************************************************************************)
Collections == {"tracks", "artists", "albums", "genres", "keys", "colors",
                "artworks", "playlistTree", "playlistEntries"}

IsDatabase(d) ==
  /\ DOMAIN d = Collections
  /\ \A c \in Collections \ {"playlistEntries"} : DOMAIN d[c] \subseteq Nat
  /\ DOMAIN d.playlistEntries = 1..Len(d.playlistEntries)

\* C9: constructing the parser and calling parse never raises, whatever the
\* buffer holds (empty, truncated, damaged header, links, row counts, offsets
\* or strings), and what parse returns is a Database with its nine
\* collections.
ReaderNeverRaises ==
  /\ ppc # "threw"
  /\ ppc = "returned" => IsDatabase(db)

\* the worst case: the empty buffer parses to the all-empty Database
ReaderNeverRaisesWitness ==
  /\ ppc = "returned"
  /\ pbuf = <<>>
  /\ db = EmptyDatabase

\* a truncated page still yields the rows that fit
TruncatedFileWitness ==
  /\ ppc = "returned"
  /\ Len(pbuf) < Len(SmallFile)
  /\ DOMAIN db.artists # {}

\* the work a parse has left: tables not started, pages the current walk
\* may still visit, and the steps around them
Remaining ==
  (Len(TableOrder) - tableIdx) * (maxPages + 2)
  + (IF walking THEN maxPages - pageCount + 1 ELSE 0)
  + (CASE ppc = "new" -> 2 [] ppc \in {"constructed", "walk"} -> 1 [] OTHER -> 0)

\* C10: the page walk of every table terminates, cyclic chains and absurd
\* row counts included: a walk visits at most maxPages pages, a page whose
\* rows are walked has at most maxRows row slots, a page is visited only
\* while the page index is not 0, and every step of the parse uses up some
\* of the bounded work that remains.
PageWalkTerminates ==
  /\ [](/\ pageCount <= maxPages
        /\ Remaining >= 0
        /\ ~lastStep.skipped => /\ lastStep.numRows <= maxRows
                                /\ lastStep.slots <= maxRows
        /\ lastStep.skipped => lastStep.yields = <<>>)
  /\ [][/\ Remaining' < Remaining
        /\ pageCount' > pageCount => currentPage # 0 /\ pageCount < maxPages]_vars

\* a cyclic chain: the walk has visited more pages than the file holds
PageWalkTerminatesWitness ==
  /\ ppc = "walk"
  /\ walking
  /\ pageSize > 0
  /\ pageCount > Len(pbuf) \div pageSize
  /\ currentPage # 0

\* a cyclic chain is left at the page ceiling
PageCeilingWitness ==
  /\ ppc = "walk"
  /\ ~walking
  /\ pageCount = maxPages
  /\ currentPage # 0

\* a page with an absurd row count is passed over and the walk goes on
AbsurdRowCountWitness ==
  /\ lastStep.skipped
  /\ lastStep.numRows > maxRows
  /\ walking
  /\ currentPage # 0

(***************************************************************************)
(* useFileSystem: saveDatabase over a loaded database.  The directory      *)
(* holds export.pdb and the backup files; a writable stream is a swap file *)
(* whose bytes replace the file when close resolves.  Every call of the    *)
(* File System Access API may reject.                                      *)
(***************************************************************************)
MaxSaves       == 2    \* saveDatabase calls in a behaviour
MaxNow         == 3    \* last tick of the clock
TicksPerSecond == 2    \* clock ticks in one second

NoStream == [open |-> FALSE, bytes |-> <<>>]
Stream(bytes) == [open |-> TRUE, bytes |-> bytes]

\* createBackupFilename: the name carries the time cut to whole seconds
createBackupFilename(tick) == tick \div TicksPerSecond

\* the export.pdb on the stick: one page of three playlist entries
SavePage == 88

SaveFile ==
  PadTo(FileHeaderBytes(SavePage, <<<<PlaylistEntries, 1, 1>>>>), SavePage)
  \o PageBytes(SavePage, 1, PlaylistEntries, 0,
               <<RowBytes(Entry(1, 1, 0)), RowBytes(Entry(1, 2, 1)),
                 RowBytes(Entry(2, 1, 0))>>)

\* the entries load reads from the file
LoadedEntries == ParseDatabase(SaveFile).playlistEntries

\* entry lists the editor hands to saveDatabase: no edit, the two tracks of
\* playlist 1 swapped, the first track of playlist 1 removed
SaveInputs ==
  {LoadedEntries,
   <<Entry(1, 2, 0), Entry(1, 1, 1), Entry(2, 1, 0)>>,
   <<Entry(1, 2, 0), Entry(2, 1, 0)>>}

\* a copy that holds nothing
sliceNothing(bytes) == <<>>

\* ArrayBuffer.slice(0) of lines 257 and 378: a copy of the bytes
sliceAll(bytes) == bytes

\* selectUSBFolder has loaded export.pdb: lines 255-263
Loaded ==
  /\ spc = "idle"
  /\ exportPdb = SaveFile
  /\ backupFiles = <<>>
  /\ originalPdbBuffer = SaveFile
  /\ originalPlaylistEntries = LoadedEntries
  /\ isSaving = FALSE
  /\ saveEntries = <<>>
  /\ backupFilename = 0
  /\ backupWritable = NoStream
  /\ modifiedBuffer = <<>>
  /\ writable = NoStream
  /\ saveResult = "none"
  /\ saveCount = 0
  /\ now = 0
  /\ WriterIdle
  /\ ParserIdle
  /\ ReaderIdle

InitSave == Loaded /\ EditorIdle

Tick ==
  /\ now < MaxNow
  /\ now' = now + 1
  /\ UNCHANGED <<spc, exportPdb, backupFiles, originalPdbBuffer,
                 originalPlaylistEntries, isSaving, saveEntries, backupFilename,
                 backupWritable, modifiedBuffer, writable, saveResult, saveCount>>
  /\ UNCHANGED <<wvars, pvars, rvars, evars>>

\* lines 336-351: up to the first await
saveDatabase(inputs) ==
  /\ spc = "idle"
  /\ saveCount < MaxSaves
  /\ \E mes \in inputs : saveEntries' = mes
  /\ isSaving' = TRUE
  /\ backupFilename' = createBackupFilename(now)
  /\ spc' = "backupGetFileHandle"
  /\ saveCount' = saveCount + 1
  /\ saveResult' = "none"
  /\ UNCHANGED <<exportPdb, backupFiles, originalPdbBuffer,
                 originalPlaylistEntries, backupWritable, modifiedBuffer,
                 writable, now>>
  /\ UNCHANGED <<wvars, pvars, rvars>>

SaveCall == saveDatabase(SaveInputs) /\ UNCHANGED evars

\* lines 357-371: the backup block is left, by its end or by its catch; the
\* modifications are applied and getFileHandle('export.pdb') is awaited
LeaveBackupBlock ==
  /\ modifiedBuffer' = applyPlaylistModifications(originalPdbBuffer,
                          originalPlaylistEntries, saveEntries)
  /\ spc' = "getFileHandle"

\* line 352: getFileHandle(backupFilename, { create: true })
BackupGetFileHandle ==
  /\ spc = "backupGetFileHandle"
  /\ \E ok \in BOOLEAN :
       IF ok
         THEN /\ backupFiles' = IF backupFilename \in DOMAIN backupFiles
                                  THEN backupFiles
                                  ELSE (backupFilename :> <<>>) @@ backupFiles
              /\ spc' = "backupCreateWritable"
              /\ UNCHANGED modifiedBuffer
         ELSE /\ LeaveBackupBlock
              /\ UNCHANGED backupFiles
  /\ UNCHANGED <<exportPdb, originalPdbBuffer, originalPlaylistEntries, isSaving,
                 saveEntries, backupFilename, backupWritable, writable,
                 saveResult, saveCount, now>>
  /\ UNCHANGED <<wvars, pvars, rvars, evars>>

\* line 353: createWritable()
BackupCreateWritable ==
  /\ spc = "backupCreateWritable"
  /\ \E ok \in BOOLEAN :
       IF ok
         THEN /\ backupWritable' = Stream(<<>>)
              /\ spc' = "backupWrite"
              /\ UNCHANGED modifiedBuffer
         ELSE /\ LeaveBackupBlock
              /\ UNCHANGED backupWritable
  /\ UNCHANGED <<exportPdb, backupFiles, originalPdbBuffer,
                 originalPlaylistEntries, isSaving, saveEntries, backupFilename,
                 writable, saveResult, saveCount, now>>
  /\ UNCHANGED <<wvars, pvars, rvars, evars>>

\* line 354: write(originalPdbBuffer.current)
BackupWrite ==
  /\ spc = "backupWrite"
  /\ \E ok \in BOOLEAN :
       IF ok
         THEN /\ backupWritable' = Stream(originalPdbBuffer)
              /\ spc' = "backupClose"
              /\ UNCHANGED modifiedBuffer
         ELSE /\ LeaveBackupBlock
              /\ backupWritable' = NoStream
  /\ UNCHANGED <<exportPdb, backupFiles, originalPdbBuffer,
                 originalPlaylistEntries, isSaving, saveEntries, backupFilename,
                 writable, saveResult, saveCount, now>>
  /\ UNCHANGED <<wvars, pvars, rvars, evars>>

\* line 355: close()
BackupClose ==
  /\ spc = "backupClose"
  /\ \E ok \in BOOLEAN :
       /\ backupFiles' = IF ok
                           THEN [backupFiles EXCEPT ![backupFilename] =
                                   backupWritable.bytes]
                           ELSE backupFiles
  /\ backupWritable' = NoStream
  /\ LeaveBackupBlock
  /\ UNCHANGED <<exportPdb, originalPdbBuffer, originalPlaylistEntries, isSaving,
                 saveEntries, backupFilename, writable, saveResult, saveCount,
                 now>>
  /\ UNCHANGED <<wvars, pvars, rvars, evars>>

\* lines 385-393: the outer catch
SaveFails ==
  /\ isSaving' = FALSE
  /\ saveResult' = "false"
  /\ spc' = "idle"
  /\ writable' = NoStream
  /\ UNCHANGED <<exportPdb, originalPdbBuffer, originalPlaylistEntries>>

\* line 372: getFileHandle('export.pdb', { create: false })
GetFileHandle ==
  /\ spc = "getFileHandle"
  /\ \E ok \in BOOLEAN :
       IF ok
         THEN /\ spc' = "createWritable"
              /\ UNCHANGED <<exportPdb, originalPdbBuffer,
                             originalPlaylistEntries, isSaving, writable,
                             saveResult>>
         ELSE SaveFails
  /\ UNCHANGED <<backupFiles, saveEntries, backupFilename, backupWritable,
                 modifiedBuffer, saveCount, now>>
  /\ UNCHANGED <<wvars, pvars, rvars, evars>>

\* line 373: createWritable()
CreateWritable ==
  /\ spc = "createWritable"
  /\ \E ok \in BOOLEAN :
       IF ok
         THEN /\ spc' = "write"
              /\ writable' = Stream(<<>>)
              /\ UNCHANGED <<exportPdb, originalPdbBuffer,
                             originalPlaylistEntries, isSaving, saveResult>>
         ELSE SaveFails
  /\ UNCHANGED <<backupFiles, saveEntries, backupFilename, backupWritable,
                 modifiedBuffer, saveCount, now>>
  /\ UNCHANGED <<wvars, pvars, rvars, evars>>

\* line 374: write(modifiedBuffer)
Write ==
  /\ spc = "write"
  /\ \E ok \in BOOLEAN :
       IF ok
         THEN /\ spc' = "close"
              /\ writable' = Stream(modifiedBuffer)
              /\ UNCHANGED <<exportPdb, originalPdbBuffer,
                             originalPlaylistEntries, isSaving, saveResult>>
         ELSE SaveFails
  /\ UNCHANGED <<backupFiles, saveEntries, backupFilename, backupWritable,
                 modifiedBuffer, saveCount, now>>
  /\ UNCHANGED <<wvars, pvars, rvars, evars>>

\* lines 375-384: close(), then the stored originals are replaced
CloseResolves ==
  /\ spc = "close"
  /\ \E ok \in BOOLEAN :
       IF ok
         THEN /\ exportPdb' = writable.bytes
              /\ writable' = NoStream
              /\ originalPdbBuffer' = sliceAll(modifiedBuffer)
              /\ originalPlaylistEntries' = saveEntries
              /\ isSaving' = FALSE
              /\ saveResult' = "true"
              /\ spc' = "idle"
         ELSE SaveFails
  /\ UNCHANGED <<backupFiles, saveEntries, backupFilename, backupWritable,
                 modifiedBuffer, saveCount, now>>
  /\ UNCHANGED <<wvars, pvars, rvars>>

Close == CloseResolves /\ UNCHANGED evars

NextSave ==
  \/ Tick \/ SaveCall
  \/ BackupGetFileHandle \/ BackupCreateWritable \/ BackupWrite \/ BackupClose
  \/ GetFileHandle \/ CreateWritable \/ Write \/ Close

SpecSave == InitSave /\ [][NextSave]_vars

\* ---- loads between the saves
\* selectUSBFolder reads export.pdb again: lines 240-273
Load ==
  /\ spc = "idle"
  /\ originalPdbBuffer' = sliceAll(exportPdb)
  /\ originalPlaylistEntries' = ParseDatabase(exportPdb).playlistEntries
  /\ isSaving' = FALSE
  /\ UNCHANGED <<spc, exportPdb, backupFiles, saveEntries, backupFilename,
                 backupWritable, modifiedBuffer, writable, saveResult,
                 saveCount, now>>
  /\ UNCHANGED <<wvars, pvars, rvars, evars>>

NextLoadSave == NextSave \/ Load

SpecLoadSave == InitSave /\ [][NextLoadSave]_vars

\* C8: export.pdb is overwritten only after an unmodified backup of the
\* original bytes has been persisted under the backup filename of the call:
\* at every step that changes the bytes of export.pdb, the backup file of
\* that call exists and holds the bytes export.pdb had before the step.
BackupBeforeOverwrite ==
  [][exportPdb' # exportPdb =>
       /\ backupFilename \in DOMAIN backupFiles
       /\ backupFiles[backupFilename] = exportPdb]_vars

(***************************************************************************)
(* Properties of the page walker's rows.                                   *)
(***************************************************************************)
\* the bit of slot rowIndex in the presence bitmap of the page at pageOffset:
\* bit rowIndex mod 8 of the byte floor(rowIndex / 8) after the 40-byte header
PresenceBit(b, pageOffset, rowIndex) ==
  LET at == pageOffset + 40 + rowIndex \div 8
  IN at < Len(b) /\ (b[at + 1] \div 2 ^ (rowIndex % 8)) % 2 = 1

\* C11: every row offset the page walker yields is an absolute offset inside
\* the buffer and belongs to a slot of the page being walked whose bit is set
\* in that page's presence bitmap; a slot whose bit is clear is never yielded.
YieldedRowsArePresent ==
  \A k \in 1..Len(lastStep.yields) :
    LET y == lastStep.yields[k]
    IN /\ y.offset >= 0
       /\ y.offset < Len(pbuf)
       /\ y.pageOffset = PageOffset(pbuf, pageSize, lastStep.page)
       /\ y.rowIndex \in 0..(lastStep.numRows - 1)
       /\ PresenceBit(pbuf, y.pageOffset, y.rowIndex)

\* a page where a slot with a clear bit was passed over and a later slot
\* was yielded
YieldedRowsArePresentWitness ==
  /\ lastStep.yields # <<>>
  /\ \E k \in 1..Len(lastStep.yields) :
       \E i \in 0..(lastStep.yields[k].rowIndex - 1) :
         ~PresenceBit(pbuf, lastStep.yields[k].pageOffset, i)

(***************************************************************************)
(* BinaryReader on its own: a reader over one buffer and the calls the     *)
(* parser makes on it, seek(pos) followed by one read, or                  *)
(* readDeviceSqlString.  The buffers hold one encoded string between a     *)
(* lead and a trail, whole or cut short.                                   *)
(***************************************************************************)
MaxChars == 2     \* characters of an encoded string (short and long forms)

Chars == {0, 65, 66}        \* NUL, 'A', 'B'
Units == {0, 65, 8364}      \* NUL, 'A', the euro sign
FallbackTags == {65, 66, 145, 255}

\* tag 0x40, a length byte, the characters
LongAscii(chars) == <<64, Len(chars)>> \o chars

\* tag 0x90, the byte length as u16, the code units little-endian
LongUtf16(units) ==
  <<144>> \o LE16(2 * Len(units))
          \o Concat([k \in 1..Len(units) |-> LE16(units[k])])

\* a short string whose tag is even
EvenShortString(chars) == <<2 * Len(chars)>> \o chars

\* the character count of the fallback form for a tag: lines 133-135
\* a fallback string: the tag, 'A's and one trailing NUL
FallbackString(tag) == <<tag>> \o Repeat(65, FallbackCount(tag) - 1) \o <<0>>

EncodedStrings ==
  {LongAscii(c) : c \in SeqsUpTo(Chars, MaxChars)}
  \cup {LongUtf16(u) : u \in SeqsUpTo(Units, MaxChars)}
  \cup {ShortString(c) : c \in SeqsUpTo(Chars, MaxChars)}
  \cup {EvenShortString(c) : c \in SeqsUpTo(Chars, MaxChars)}
  \cup {FallbackString(t) : t \in FallbackTags}
  \cup {<<144, 3, 0, 65, 0, 66>>,          \* odd byte length
        <<144, 2, 0, 0, 216>>,             \* lone surrogate
        <<144, 4, 0, 255, 254, 65, 0>>,    \* byte order mark
        <<64, 1, 128>>, <<3, 159>>}        \* windows-1252 only

ReaderLeads  == {<<>>, <<7>>}
ReaderTrails == {<<>>, <<0, 9>>}

ReaderFiles ==
  LET whole == {lead \o str \o trail : lead \in ReaderLeads,
                                       str \in EncodedStrings,
                                       trail \in ReaderTrails}
  IN whole \cup {SubSeq(b, 1, Len(b) - cut) : b \in whole, cut \in {1, 3}}
           \cup {<<>>}

\* the positions the calls of the model seek to: the start and the end of
\* the buffer, and two positions past the end
ReadPositions(b) == {p \in 0..(Len(b) + 1) : p <= 3 \/ p >= Len(b) - 4}

\* a 32-bit read stays below 2^31 in the model
FitsInteger(b, pos) == pos + 4 > Len(b) \/ b[pos + 4] < 128

ReadLengths == {0, 1, 2, 5}
StringBases == {-1, 0, 1}
StringOffsets == {-1, 0, 1, 2, 3}

\* new BinaryReader(buffer): lines 54-57
InitReader ==
  /\ rpc = "ready"
  /\ rbuf \in ReaderFiles
  /\ rcall = <<>>
  /\ WriterIdle
  /\ ParserIdle
  /\ AppIdle
  /\ EditorIdle

\* one call on a fresh reader: a call starts with a seek, so that what an
\* earlier call left behind does not matter
ReaderCalled(call) ==
  /\ rpc = "ready"
  /\ rpc' = "called"
  /\ rcall' = call
  /\ UNCHANGED rbuf
  /\ UNCHANGED <<wvars, pvars, avars, evars>>

\* seek(pos); readU8()
ReadU8Call ==
  \E pos \in ReadPositions(rbuf) :
    ReaderCalled([op |-> "readU8", pos |-> pos, size |-> 1,
                  result |-> readU8(rbuf, pos)])

\* seek(pos); readU16()
ReadU16Call ==
  \E pos \in ReadPositions(rbuf) :
    ReaderCalled([op |-> "readU16", pos |-> pos, size |-> 2,
                  result |-> readU16(rbuf, pos)])

\* seek(pos); readU32()
ReadU32Call ==
  \E pos \in {p \in ReadPositions(rbuf) : FitsInteger(rbuf, p)} :
    ReaderCalled([op |-> "readU32", pos |-> pos, size |-> 4,
                  result |-> readU32(rbuf, pos)])

\* seek(pos); readBytes(length)
ReadBytesCall ==
  \E pos \in ReadPositions(rbuf), length \in ReadLengths :
    ReaderCalled([op |-> "readBytes", pos |-> pos, size |-> length,
                  result |-> readBytes(rbuf, pos, length)])

\* readDeviceSqlString(baseOffset, stringOffset)
ReadStringCall ==
  \E base \in StringBases, offset \in StringOffsets :
    ReaderCalled([op |-> "readDeviceSqlString", base |-> base,
                  offset |-> offset,
                  result |-> readDeviceSqlString(rbuf, base, offset)])

NextReader ==
  ReadU8Call \/ ReadU16Call \/ ReadU32Call \/ ReadBytesCall \/ ReadStringCall

SpecReader == InitReader /\ [][NextReader]_vars

(***************************************************************************)
(* Properties of the BinaryReader.                                         *)
(***************************************************************************)
IsRead   == rpc = "called" /\ rcall.op \in {"readU8", "readU16", "readU32"}
IsBytes  == rpc = "called" /\ rcall.op = "readBytes"
IsString == rpc = "called" /\ rcall.op = "readDeviceSqlString"

\* the unsigned little-endian number in the size bytes at pos
RECURSIVE LittleEndianAt(_, _, _)
LittleEndianAt(b, pos, size) ==
  IF size = 0 THEN 0
  ELSE b[pos + 1] + 256 * LittleEndianAt(b, pos + 1, size - 1)

\* C19: at every position the parser seeks to, readU8, readU16, readU32 and
\* readBytes never raise; when position + size exceeds the buffer length
\* they return the zero value (0, or the empty byte array), and otherwise
\* the little-endian unsigned value (or the bytes) at the position.
ReadsNeverRaise ==
  /\ IsRead =>
       /\ ~rcall.result.threw
       /\ rcall.result.value =
            IF rcall.pos + rcall.size > Len(rbuf) THEN 0
            ELSE LittleEndianAt(rbuf, rcall.pos, rcall.size)
  /\ IsBytes =>
       /\ ~rcall.result.threw
       /\ rcall.result.value =
            IF rcall.pos + rcall.size > Len(rbuf) THEN <<>>
            ELSE [k \in 1..rcall.size |-> rbuf[rcall.pos + k]]

\* a two-byte read whose first byte is the last byte of the buffer
ReadsNeverRaiseWitness ==
  /\ IsRead
  /\ rcall.op = "readU16"
  /\ rcall.pos = Len(rbuf) - 1
  /\ rbuf[Len(rbuf)] # 0
  /\ rcall.result.value = 0

\* ---- readDeviceSqlString
StringPos == rcall.base + rcall.offset

\* the string position is a byte of the buffer
StringInside == StringPos >= 0 /\ StringPos < Len(rbuf)

Tag == rbuf[StringPos + 1]

\* where the characters start and how many bytes the tag (and the length
\* field after it) announce; a length field that is cut off announces
\* more than the buffer holds
DataStart ==
  CASE Tag = 64  -> StringPos + 2
    [] Tag = 144 -> StringPos + 3
    [] OTHER     -> StringPos + 1

AnnouncedLength ==
  CASE Tag = 64  -> IF StringPos + 2 > Len(rbuf) THEN Len(rbuf) + 1
                    ELSE rbuf[StringPos + 2]
    [] Tag = 144 -> IF StringPos + 3 > Len(rbuf) THEN Len(rbuf) + 1
                    ELSE rbuf[StringPos + 2] + 256 * rbuf[StringPos + 3]
    [] Tag < 64  -> Tag \div 2
    [] OTHER     -> (Tag - 1) \div 2 - 1

ReadsPastEnd == DataStart + AnnouncedLength > Len(rbuf)

\* the announced bytes
Data == [k \in 1..AnnouncedLength |-> rbuf[DataStart + k]]

IsText(str) ==
  /\ DOMAIN str = 1..Len(str)
  /\ \A k \in 1..Len(str) : str[k] \in 0..65535

\* C12: readDeviceSqlString is total: whatever the buffer, the base offset
\* and the relative offset, it returns a string and does not raise; the
\* string is empty when the relative offset is 0, when base + relative is
\* outside the buffer, and when the encoded length reads past the end of
\* the buffer.
StringReadIsTotal ==
  IsString =>
    /\ ~rcall.result.threw
    /\ IsText(rcall.result.value)
    /\ rcall.offset = 0 => rcall.result.value = <<>>
    /\ ~StringInside => rcall.result.value = <<>>
    /\ StringInside /\ ReadsPastEnd => rcall.result.value = <<>>

\* a long string whose length byte announces more characters than are left
StringReadIsTotalWitness ==
  /\ IsString
  /\ rcall.offset # 0
  /\ StringInside
  /\ Tag = 64
  /\ StringPos + 2 < Len(rbuf)
  /\ ReadsPastEnd
  /\ rcall.result.value = <<>>

\* the null string in front of a well-formed encoded string
NullStringWitness ==
  /\ IsString
  /\ rcall.offset = 0
  /\ StringInside
  /\ Tag = 3
  /\ ~ReadsPastEnd

\* characters that are the same in ASCII and in the decoder's windows-1252
IsAscii(bytes) == \A k \in 1..Len(bytes) : bytes[k] < 128

\* the code units of an even number of bytes
UnitsOf(bytes) ==
  [k \in 1..(Len(bytes) \div 2) |-> bytes[2 * k - 1] + 256 * bytes[2 * k]]

\* UTF-16 text a decoder returns as it is: whole code units, no surrogate,
\* no byte order mark
IsPlainUtf16(bytes) ==
  /\ Len(bytes) % 2 = 0
  /\ \A k \in 1..(Len(bytes) \div 2) :
       /\ UnitsOf(bytes)[k] < 55296 \/ UnitsOf(bytes)[k] > 57343
       /\ UnitsOf(bytes)[k] # 65279

\* str without the NULs at its end
RECURSIVE WithoutTrailingNuls(_)
WithoutTrailingNuls(str) ==
  IF str # <<>> /\ str[Len(str)] = 0
    THEN WithoutTrailingNuls(SubSeq(str, 1, Len(str) - 1))
  ELSE str

\* C20: the tag byte alone selects the encoding, and a well-formed value is
\* returned exactly: after tag 0x40 and a length byte n, the n characters
\* that follow; after tag 0x90 and a u16 byte length, the UTF-16LE text of
\* that many bytes; for a tag of at most 0x3F, the tag/2 characters that
\* follow without their trailing NULs; for every other tag the fallback
\* short form, (tag-1)/2 - 1 characters without their trailing NULs.
TagSelectsEncoding ==
  IsString /\ rcall.offset # 0 /\ StringInside /\ ~ReadsPastEnd =>
    CASE Tag = 64  -> IsAscii(Data) => rcall.result.value = Data
      [] Tag = 144 -> IsPlainUtf16(Data) => rcall.result.value = UnitsOf(Data)
      [] Tag < 64  -> IsAscii(Data) =>
                        rcall.result.value = WithoutTrailingNuls(Data)
      [] OTHER     -> IsAscii(Data) =>
                        rcall.result.value = WithoutTrailingNuls(Data)

\* a short string that loses a trailing NUL and keeps the NUL inside it
TagSelectsEncodingWitness ==
  /\ IsString
  /\ rcall.offset # 0
  /\ StringInside
  /\ ~ReadsPastEnd
  /\ Tag < 64
  /\ AnnouncedLength >= 2
  /\ Data[AnnouncedLength] = 0
  /\ rcall.result.value # <<>>
  /\ Len(rcall.result.value) < AnnouncedLength

\* a long UTF-16 string with a character outside ASCII
LongUtf16Witness ==
  /\ IsString
  /\ rcall.offset # 0
  /\ StringInside
  /\ ~ReadsPastEnd
  /\ Tag = 144
  /\ \E k \in 1..Len(rcall.result.value) : rcall.result.value[k] = 8364

\* a long ASCII string keeps its trailing NUL
LongAsciiWitness ==
  /\ IsString
  /\ rcall.offset # 0
  /\ StringInside
  /\ ~ReadsPastEnd
  /\ Tag = 64
  /\ rcall.result.value # <<>>
  /\ rcall.result.value[Len(rcall.result.value)] = 0

\* the fallback form
FallbackWitness ==
  /\ IsString
  /\ rcall.offset # 0
  /\ StringInside
  /\ ~ReadsPastEnd
  /\ Tag = 255
  /\ Len(rcall.result.value) = 125

(***************************************************************************)
(* Tracks and the dimension tables they refer to.  A library file has one  *)
(* record in each dimension table and one track.                           *)
(***************************************************************************)
DimensionIds == {0, 1}       \* the id of the record of each dimension table
ReferenceIds == {0, 1, 2}    \* artistId, albumId, genreId, keyId of the track

LibraryFile(dim, artistId, albumId, genreId, keyId) ==
  PadTo(FileHeaderBytes(FullPage,
          <<<<Tracks, 7, 7>>, <<Genres, 3, 3>>, <<Artists, 1, 1>>,
            <<Albums, 2, 2>>, <<Keys, 4, 4>>, <<Colors, 5, 5>>,
            <<PlaylistTree, 8, 8>>, <<PlaylistEntries, 9, 9>>,
            <<Artwork, 6, 6>>>>), FullPage)
  \o PageBytes(FullPage, 1, Artists, 0, <<ArtistRow(dim, <<65>>)>>)
  \o PageBytes(FullPage, 2, Albums, 0, <<AlbumRow(dim, 1, <<76>>)>>)
  \o PageBytes(FullPage, 3, Genres, 0, <<GenreRow(dim, <<71>>)>>)
  \o PageBytes(FullPage, 4, Keys, 0, <<KeyRow(dim, <<75>>)>>)
  \o PageBytes(FullPage, 5, Colors, 0, <<ColorRow(1, <<82>>)>>)
  \o PageBytes(FullPage, 6, Artwork, 0, <<ArtworkRow(1, <<47>>)>>)
  \o PageBytes(FullPage, 7, Tracks, 0,
               <<TrackRow(FALSE, 1, artistId, albumId, genreId, keyId, <<84>>)>>)
  \o PageBytes(FullPage, 8, PlaylistTree, 0, <<PlaylistTreeRow(1, 0, 0, <<80>>)>>)
  \o PageBytes(FullPage, 9, PlaylistEntries, 0, <<RowBytes(Entry(1, 1, 0))>>)

LibraryFiles ==
  {LibraryFile(dim, a, l, g, k) :
     dim \in DimensionIds, a \in ReferenceIds, l \in ReferenceIds,
     g \in ReferenceIds, k \in ReferenceIds}

InitLibrary == ParserStarts(LibraryFiles)

SpecLibrary == InitLibrary /\ [][NextParser]_vars

\* the name of the record of a dimension table that an id refers to: id 0
\* refers to no record
NameOf(map, id) ==
  IF id # 0 /\ id \in DOMAIN map THEN map[id].name ELSE <<>>

NamesResolved(t) ==
  /\ t.artist = NameOf(db.artists, t.artistId)
  /\ t.album = NameOf(db.albums, t.albumId)
  /\ t.genre = NameOf(db.genres, t.genreId)
  /\ t.key = NameOf(db.keys, t.keyId)

\* C13: every decoded track is stored, and each of its names artist, album,
\* genre and key is the name of the record of the dimension table whose id
\* is the track's artistId, albumId, genreId, keyId, and the empty string
\* when that id is 0 or no record has it.
TrackNamesResolved ==
  ppc = "returned" =>
    /\ DOMAIN db.tracks = {1}
    /\ \A id \in DOMAIN db.tracks : NamesResolved(db.tracks[id])

\* the same when no dimension table holds a record with id 0
TrackNamesResolvedWithoutRecordZero ==
  ppc = "returned" /\ 0 \notin DOMAIN db.artists \cup DOMAIN db.albums
                                \cup DOMAIN db.genres \cup DOMAIN db.keys =>
    /\ DOMAIN db.tracks = {1}
    /\ \A id \in DOMAIN db.tracks : NamesResolved(db.tracks[id])

\* a track whose genre is resolved, whose artist is none and whose key
\* names no record
TrackNamesResolvedWitness ==
  /\ ppc = "returned"
  /\ 1 \in DOMAIN db.tracks
  /\ 1 \in DOMAIN db.genres
  /\ db.tracks[1].genreId = 1 /\ db.tracks[1].genre = <<71>>
  /\ db.tracks[1].artistId = 0 /\ db.tracks[1].artist = <<>>
  /\ db.tracks[1].keyId = 2 /\ db.tracks[1].key = <<>>

\* a record with id 0 lends its name to a track without artist
RecordZeroWitness ==
  /\ ppc = "returned"
  /\ 0 \in DOMAIN db.artists
  /\ 1 \in DOMAIN db.tracks
  /\ db.tracks[1].artistId = 0
  /\ db.tracks[1].artist = <<65>>

(***************************************************************************)
(* Further properties of applyPlaylistModifications.                       *)
(***************************************************************************)
\* no edited entry carries the playlist of e
PlaylistRemoved(e) ==
  \A j \in 1..Len(modifiedEntries) : modifiedEntries[j].playlistId # e.playlistId

\* the 12 bytes of the row at offset o
RowAt(b, o) == SubSeq(b, o + 1, o + 12)

\* where the input stores the row of the i-th original entry
LeadOfInput ==
  CHOOSE lead \in LeadPads :
    \E trail \in TrailPads : callBytes = Layout(lead, originalEntries, trail)

RowOffset(i) == LeadOfInput + 12 * (i - 1)

\* C14: when no edited entry carries the playlist of an original entry (the
\* playlist was removed entirely), the bytes of every row of that playlist
\* are in the output what they were in the input, and no entry of that
\* playlist is counted as modified.
RemovedPlaylistUntouched ==
  Returned =>
    /\ \A i \in 1..Len(originalEntries) :
         PlaylistRemoved(originalEntries[i]) =>
           /\ matchLog[i].outcome \in {"notFound", "playlistRemoved"}
           /\ RowAt(Output, RowOffset(i)) = RowAt(callBytes, RowOffset(i))
    /\ modCount = Cardinality({i \in 1..Len(originalEntries) :
                                 /\ ~PlaylistRemoved(originalEntries[i])
                                 /\ matchLog[i].outcome = "written"})

\* no two located triples share a byte
NoOverlappingLocations ==
  \A k1, k2 \in DOMAIN locations :
    k1 # k2 => \/ locations[k1] + 12 <= locations[k2]
               \/ locations[k2] + 12 <= locations[k1]

\* the same for the calls whose located triples do not overlap
RemovedPlaylistUntouchedWithoutOverlap ==
  Returned /\ NoOverlappingLocations => RemovedPlaylistUntouched

\* an entry located inside the row of a removed playlist
OverlapWitness ==
  /\ Returned
  /\ \E i, j \in 1..Len(originalEntries) :
       /\ PlaylistRemoved(originalEntries[i])
       /\ matchLog[i].outcome = "playlistRemoved"
       /\ matchLog[j].outcome = "written"
       /\ matchLog[j].offset = matchLog[i].offset + 4

\* a removed playlist whose row is located next to a row that is rewritten
RemovedPlaylistUntouchedWitness ==
  /\ Returned
  /\ modCount > 0
  /\ \E i \in 1..Len(originalEntries) :
       /\ PlaylistRemoved(originalEntries[i])
       /\ matchLog[i].outcome = "playlistRemoved"

\* the step of the loop that processes the next original entry
ProcessesEntry == wpc = "loop" /\ wi < Len(originalEntries)

\* the bytes of the working buffer that the step changes (1-based)
ChangedBytes ==
  {k \in 1..Len(heap[buffer]) : heap'[buffer][k] # heap[buffer][k]}

\* C15: when the triple of an original entry occurs at several even offsets
\* of the input, the location recorded for it is the lowest of them (the
\* first match of the scan wins), and processing the entry can overwrite
\* the ordinal field at that lowest offset only: the later occurrences are
\* left as they are.
FirstMatchWins ==
  [][ProcessesEntry =>
       LET e == originalEntries[wi + 1]
           S == StoredOffsets(callBytes, e)
       IN Cardinality(S) >= 2 =>
            /\ KeyOf(e) \in DOMAIN locations
            /\ locations[KeyOf(e)] = Min(S)
            /\ ChangedBytes \subseteq (Min(S) + 1)..(Min(S) + 4)]_vars

\* an entry stored twice whose first row was rewritten
FirstMatchWinsWitness ==
  /\ Returned
  /\ \E i \in 1..Len(originalEntries) :
       LET S == StoredOffsets(callBytes, originalEntries[i])
       IN /\ Cardinality(S) >= 2
          /\ matchLog[i].outcome = "written"
          /\ matchLog[i].offset = Min(S)
          /\ \A o \in S \ {Min(S)} : RowAt(Output, o) = RowAt(callBytes, o)

\* C16: an ordinal field is overwritten only when the value stored in it
\* differs from the edited ordinal of the matched entry, the modified count
\* goes up by exactly one for each overwrite, and a located entry whose
\* stored ordinal equals its edited ordinal causes no write and is not
\* counted.
WritesOnlyDifferences ==
  [][ProcessesEntry =>
       LET log    == matchLog'[wi + 1]
           stored == getUint32(heap[buffer], log.offset)
       IN /\ modCount' \in {modCount, modCount + 1}
          /\ modCount' = modCount + 1 <=> ChangedBytes # {}
          /\ ChangedBytes # {} =>
               /\ log.offset = locations[KeyOf(originalEntries[wi + 1])]
               /\ ChangedBytes \subseteq (log.offset + 1)..(log.offset + 4)
               /\ stored # log.target.entryIndex
               /\ getUint32(heap'[buffer], log.offset) = log.target.entryIndex
          /\ log.outcome \in {"written", "unchanged"}
               /\ stored = log.target.entryIndex =>
               ChangedBytes = {} /\ modCount' = modCount]_vars

\* a call that rewrote one entry and left alone another whose ordinal was
\* already the edited one
WritesOnlyDifferencesWitness ==
  /\ Returned
  /\ modCount = 1
  /\ \E i, j \in 1..Len(originalEntries) :
       /\ matchLog[i].outcome = "written"
       /\ matchLog[j].outcome = "unchanged"

(***************************************************************************)
(* Properties of the page walker's row count.                              *)
(***************************************************************************)
\* the last step walked a page whose header was read
PageWalked == lastStep.page # 0 /\ ~lastStep.stop

\* the two row-count fields of the header of the page of the last step:
\* the byte at offset 20 and the u16 at offset 30
SmallCount == pbuf[PageOffset(pbuf, pageSize, lastStep.page) + 21]
LargeCount ==
  pbuf[PageOffset(pbuf, pageSize, lastStep.page) + 31]
  + 256 * pbuf[PageOffset(pbuf, pageSize, lastStep.page) + 32]

Larger(a, b) == IF a >= b THEN a ELSE b

\* C17: for every page, the row count the page walker uses is the larger of
\* the two row-count fields of the page header, the 8-bit small count and
\* the 16-bit large count.
RowCountIsTheLarger ==
  PageWalked => lastStep.numRows = Larger(SmallCount, LargeCount)

\* the same for the pages whose large count is 0 or not below the small one
RowCountIsTheLargerUnlessLargeIsLess ==
  PageWalked /\ (LargeCount = 0 \/ LargeCount >= SmallCount) =>
    lastStep.numRows = Larger(SmallCount, LargeCount)

\* a page whose large count is 1 and whose small count is 2: one row only
LargeCountIsLessWitness ==
  /\ PageWalked
  /\ SmallCount = 2
  /\ LargeCount = 1
  /\ lastStep.numRows = 1
  /\ Len(lastStep.yields) = 1

\* the step walks the page currentPage
WalksPage == ppc = "walk" /\ walking /\ WalkContinues(currentPage, pageCount)

\* the nextPage field of the header of page: the u32 at offset 12
NextPageField(page) ==
  LittleEndianAt(pbuf, PageOffset(pbuf, pageSize, page) + 12, 4)

\* slot rowIndex of a page of numRows slots at pageOffset: where its entry
\* of the row-offset table is, and whether its bitmap byte and that entry
\* are inside the buffer
SlotEntry(pageOffset, numRows, rowIndex) ==
  pageOffset + 40 + CeilDiv8(numRows) + (CeilDiv8(numRows) % 2) + 2 * rowIndex

SlotInside(pageOffset, numRows, rowIndex) ==
  /\ pageOffset + 40 + rowIndex \div 8 < Len(pbuf)
  /\ SlotEntry(pageOffset, numRows, rowIndex) + 2 <= Len(pbuf)

\* the slots of the page of step whose row the walker has to yield
RowsOf(step) ==
  LET pageOffset == PageOffset(pbuf, pageSize, step.page)
  IN {i \in 0..(step.numRows - 1) :
        /\ SlotInside(pageOffset, step.numRows, i)
        /\ PresenceBit(pbuf, pageOffset, i)
        /\ LET at == pageOffset
                      + LittleEndianAt(pbuf,
                          SlotEntry(pageOffset, step.numRows, i), 2)
           IN at > 0 /\ at < Len(pbuf)}

\* C18: a page whose selected row count exceeds 10000 yields no rows and the
\* walk goes on with the nextPage of that page without failing; the page
\* walked after it has its rows yielded like any other page.
AbsurdRowCountIsSkipped ==
  /\ [][WalksPage /\ lastStep'.numRows > 10000 =>
          /\ lastStep'.page = currentPage
          /\ lastStep'.skipped
          /\ lastStep'.yields = <<>>
          /\ db' = db
          /\ ppc' = "walk"
          /\ walking'
          /\ currentPage' = NextPageField(currentPage)]_vars
  /\ [][WalksPage /\ lastStep.skipped /\ ~lastStep'.stop
          /\ ~lastStep'.skipped =>
          /\ lastStep'.page = currentPage
          /\ {lastStep'.yields[k].rowIndex : k \in 1..Len(lastStep'.yields)}
               = RowsOf(lastStep')
          /\ ppc' = "walk"]_vars

\* the first page of the artists table has an absurd row count and the row
\* of its second page was yielded and stored
AbsurdRowCountIsSkippedWitness ==
  /\ ppc = "walk"
  /\ tableIdx >= 1
  /\ TableOrder[tableIdx] = Artists
  /\ Artists \in DOMAIN tables
  /\ tables[Artists].firstPage = 1
  /\ PageOffset(pbuf, pageSize, 1) + 40 <= Len(pbuf)
  /\ LittleEndianAt(pbuf, PageOffset(pbuf, pageSize, 1) + 30, 2) > 10000
  /\ pageCount = 2
  /\ lastStep.page = 2
  /\ Len(lastStep.yields) = 1
  /\ DOMAIN db.artists = {3}

(***************************************************************************)
(* parseTrack on its own: one track row behind a lead, in the long or the  *)
(* short layout, with a one-character string behind some of the 21 slots.  *)
(***************************************************************************)
TrackSubtypes == {0, 4, 32, 36, 65531, 65535}   \* bit 2 clear or set
TrackLeads    == {1, 4}
NamedSlots    == {9, 15, 16, 18, 19}
OtherSlots    == {10, 17, 20}                   \* always filled

\* a track row of the given subtype whose slots in filled point to strings;
\* the string of slot s is the one character 65 + s
TrackRowWithStrings(subtype, filled) ==
  LET long     == (subtype \div 4) % 2 = 1
      tableEnd == (IF long THEN 82 ELSE 83) + 2 * numStrings
      at(s)    == tableEnd + 2 * Cardinality({t \in filled : t < s})
      slots    == [k \in 1..numStrings |->
                     LE16(IF (k - 1) \in filled THEN at(k - 1) ELSE 0)]
      strings  == [k \in 1..numStrings |->
                     IF (k - 1) \in filled THEN ShortString(<<65 + (k - 1)>>)
                     ELSE <<>>]
  IN LE16(subtype) \o LE16(0) \o LE32(0) \o LE32(44100) \o LE32(0)
     \o LE32(1000)
     \o LE32(0) \o LE32(1) \o LE32(0) \o LE32(0) \o LE32(0) \o LE32(320)
     \o LE32(1) \o LE32(12800) \o LE32(1) \o LE32(1) \o LE32(1) \o LE32(1)
     \o LE16(1) \o LE16(0) \o LE16(2020) \o LE16(16) \o LE16(180)
     \o LE16(0) \o <<0, 3>>
     \o (IF long THEN <<>> ELSE <<0>>) \o Concat(slots) \o Concat(strings)

TrackBuffers ==
  {Zeros(lead) \o TrackRowWithStrings(subtype, named \cup OtherSlots) :
     lead \in TrackLeads, subtype \in TrackSubtypes,
     named \in SUBSET NamedSlots}

\* a reader over a buffer that holds a track row
InitTrack ==
  /\ rpc = "ready"
  /\ rbuf \in TrackBuffers
  /\ rcall = <<>>
  /\ WriterIdle
  /\ ParserIdle
  /\ AppIdle
  /\ EditorIdle

\* where the row of a track buffer starts
TrackRowStart(b) ==
  CHOOSE lead \in TrackLeads :
    \E subtype \in TrackSubtypes, named \in SUBSET NamedSlots :
      b = Zeros(lead) \o TrackRowWithStrings(subtype, named \cup OtherSlots)

\* parseTrack(offset, pageOffset) at the offset the page walker yields
ParseTrackCall ==
  \E offset \in {TrackRowStart(rbuf)} :
    ReaderCalled([op |-> "parseTrack", offset |-> offset,
                  result |-> parseTrack(rbuf, offset)])

NextTrack == ParseTrackCall

SpecTrack == InitTrack /\ [][NextTrack]_vars

IsTrack == rpc = "called" /\ rcall.op = "parseTrack" /\ ~rcall.result.threw

\* bit 2 of the u16 at the start of the row
LongLayout == (LittleEndianAt(rbuf, rcall.offset, 2) \div 4) % 2 = 1

\* the u16 of slot k (0-based) of the string-offset table of the row, 0 when
\* it is cut off
SlotValue(k) ==
  LET at == rcall.offset + (IF LongLayout THEN 82 ELSE 83) + 2 * k
  IN IF at + 2 > Len(rbuf) THEN 0 ELSE LittleEndianAt(rbuf, at, 2)

\* the short string a slot points to, read off the bytes: a tag 2n or 2n+1
\* below 0x40 and n characters, without trailing NULs
SlotText(k) ==
  LET pos == rcall.offset + SlotValue(k)
  IN IF SlotValue(k) = 0 \/ pos >= Len(rbuf) THEN <<>>
     ELSE LET n == rbuf[pos + 1] \div 2
          IN IF rbuf[pos + 1] >= 64 \/ pos + 1 + n > Len(rbuf) THEN <<>>
             ELSE WithoutTrailingNuls([k2 \in 1..n |-> rbuf[pos + 1 + k2]])

LongLayoutWitness ==
  /\ IsTrack
  /\ LongLayout
  /\ rcall.result.row.title = <<65 + 16>>
  /\ rcall.result.row.dateAdded = <<65 + 9>>

(***************************************************************************)
(* The order of the tables.                                                *)
(***************************************************************************)
\* the collections in the order in which their tables are decoded
DecodingOrder ==
  <<"artists", "albums", "genres", "keys", "colors", "artworks", "tracks",
    "playlistTree", "playlistEntries">>

\* the name a map holds for an id, the empty string when it holds none
FinalName(map, id) == IF id \in DOMAIN map THEN map[id].name ELSE <<>>

\* C22: the tables are decoded in the order Artists, Albums, Genres, Keys,
\* Colors, Artwork, Tracks, Playlist-Tree, Playlist-Entries: a collection
\* changes only while its table is the one being walked, the tables are
\* taken one after the other, no track is stored before the artist, album,
\* genre and key tables have been walked to their end, and the names of a
\* track are those of the final content of these tables.
TablesInOrder ==
  /\ [][/\ tableIdx' \in {tableIdx, tableIdx + 1}
        /\ \A k \in 1..Len(DecodingOrder) :
             db'[DecodingOrder[k]] # db[DecodingOrder[k]] =>
               tableIdx' = k /\ tableIdx = k]_vars
  /\ [](DOMAIN db.tracks # {} => tableIdx >= 7)
  /\ [](ppc = "returned" =>
          \A id \in DOMAIN db.tracks :
            LET t == db.tracks[id]
            IN /\ t.artist = FinalName(db.artists, t.artistId)
               /\ t.album = FinalName(db.albums, t.albumId)
               /\ t.genre = FinalName(db.genres, t.genreId)
               /\ t.key = FinalName(db.keys, t.keyId))

\* a parse that returned a track with its four names, from a file whose
\* table directory lists the tracks first
TablesInOrderWitness ==
  /\ ppc = "returned"
  /\ 1 \in DOMAIN db.tracks
  /\ db.tracks[1].artist = <<65>>
  /\ db.tracks[1].album = <<76>>
  /\ db.tracks[1].genre = <<71>>
  /\ db.tracks[1].key = <<75>>
  /\ LittleEndianAt(pbuf, 28, 4) = Tracks

(***************************************************************************)
(* Failures during a parse.  The reads of the decoders are all guarded, so *)
(* no input makes a decoder or the walker raise; the handlers of parse are *)
(* exercised by a plan that names the rows whose decoder raises and the    *)
(* pages at which the walker raises.                                       *)
(***************************************************************************)
\* the pages of the chain that starts at page, at most fuel of them; a page
\* whose header is not in the file ends the chain
RECURSIVE ChainOf(_, _)
ChainOf(page, fuel) ==
  IF page = 0 \/ fuel = 0 THEN <<>>
  ELSE IF PageOffset(pbuf, pageSize, page) + 40 > Len(pbuf) THEN <<page>>
  ELSE <<page>> \o ChainOf(NextPageField(page), fuel - 1)

TableChain(k) ==
  ChainOf(FirstPageOf(tables, TableOrder[k]), Len(pbuf) \div pageSize)

\* the walk of the k-th table raised
WalkBroken(k) ==
  \E j \in 1..Len(TableChain(k)) : TableChain(k)[j] \in faults.pages

\* the offsets of the rows the pages of the k-th table yield
TableOffsets(k) ==
  UNION {{WalkPageStep(pbuf, pageSize, TableChain(k)[j]).yields[i].offset :
            i \in 1..Len(WalkPageStep(pbuf, pageSize, TableChain(k)[j]).yields)} :
          j \in 1..Len(TableChain(k))}

\* the row at offset o of the k-th table is in the returned database
RowStored(k, o) ==
  LET one == StoreRow(EmptyDatabase, pbuf, TableOrder[k], o)[DecodingOrder[k]]
  IN IF DecodingOrder[k] = "playlistEntries"
       THEN \E j \in 1..Len(db.playlistEntries) : db.playlistEntries[j] = one[1]
       ELSE DOMAIN one \subseteq DOMAIN db[DecodingOrder[k]]

RowsStored(k) ==
  IF DecodingOrder[k] = "playlistEntries" THEN Len(db.playlistEntries)
  ELSE Cardinality(DOMAIN db[DecodingOrder[k]])

\* C23: failures are isolated.  A parse never ends with an exception because
\* a row decoder or the walk of a table raised; of every table whose walk did
\* not raise, the returned database holds every yielded row whose decoder
\* did not raise and no other row, whatever happened to the rows beside it
\* and to the other tables.
FailuresAreIsolated ==
  /\ ppc # "threw"
  /\ ppc = "returned" =>
       \A k \in 1..Len(TableOrder) :
         ~WalkBroken(k) =>
           /\ \A o \in TableOffsets(k) \ faults.rows : RowStored(k, o)
           /\ RowsStored(k) = Cardinality(TableOffsets(k) \ faults.rows)

\* the decoder of one of the two artist rows of a page raised and the walk
\* of the playlist entries raised: the parse returned the two other artists
FailuresAreIsolatedWitness ==
  /\ ppc = "returned"
  /\ pbuf = SmallFile
  /\ faults.pages = {3}
  /\ Cardinality(faults.rows) = 1
  /\ faults.rows \subseteq TableOffsets(1)
  /\ Cardinality(DOMAIN db.artists) = 2
  /\ 3 \in DOMAIN db.artists
  /\ db.playlistEntries = <<>>

(***************************************************************************)
(* usePlaylistEditor.  A Map is the sequence of its [key, value] pairs in  *)
(* insertion order.  An event handler runs to its end, its setState        *)
(* included, before the next event is taken.                               *)
(***************************************************************************)
EditPlaylists == {1, 2}
EditTracks    == {1, 2, 3}
EditIndices   == {-1, 0, 1, 2, 3}

\* Map.has, Map.get
MapHas(map, key) == \E k \in 1..Len(map) : map[k].key = key
MapGet(map, key) == map[CHOOSE k \in 1..Len(map) : map[k].key = key].value

\* new Map(prev).set(key, value): a known key keeps its place
MapCopySet(map, key, value) ==
  IF MapHas(map, key)
    THEN [k \in 1..Len(map) |->
            IF map[k].key = key THEN [key |-> key, value |-> value] ELSE map[k]]
    ELSE Append(map, [key |-> key, value |-> value])

\* lines 17-29
getPlaylistEntries(playlistId) ==
  IF MapHas(modifiedPlaylists, playlistId)
    THEN MapGet(modifiedPlaylists, playlistId)
    ELSE SortByEntryIndex(SelectSeq(database,
                                    LAMBDA e : e.playlistId = playlistId))

\* the keys of a Map filled in this order
RECURSIVE InsertionOrder(_)
InsertionOrder(keys) ==
  IF keys = <<>> THEN <<>>
  ELSE Let(InsertionOrder(SubSeq(keys, 1, Len(keys) - 1)),
         LAMBDA before :
           IF \E k \in 1..Len(before) : before[k] = keys[Len(keys)]
             THEN before
             ELSE Append(before, keys[Len(keys)]))

\* Array.prototype.flat
RECURSIVE Flat(_)
Flat(lists) ==
  IF lists = <<>> THEN <<>>
  ELSE Flat(SubSeq(lists, 1, Len(lists) - 1)) \o lists[Len(lists)]

\* lines 32-52: the original entries grouped by playlist, the groups of the
\* modified playlists replaced, all groups joined
EntriesOf(entries, modified) ==
  Let(InsertionOrder([k \in 1..Len(entries) |-> entries[k].playlistId]
                     \o [k \in 1..Len(modified) |-> modified[k].key]),
    LAMBDA keys :
      Flat([k \in 1..Len(keys) |->
              IF MapHas(modified, keys[k]) THEN MapGet(modified, keys[k])
              ELSE SelectSeq(entries, LAMBDA e : e.playlistId = keys[k])]))

allPlaylistEntries == EntriesOf(database, modifiedPlaylists)

\* .map((e, index) => ({ ...e, entryIndex: index }))
Reindexed(entries) ==
  [k \in 1..Len(entries) |-> [entries[k] EXCEPT !.entryIndex = k - 1]]

\* splice(fromIndex, 1) and splice(toIndex, 0, removed): lines 76-77
Moved(entries, fromIndex, toIndex) ==
  Let(SubSeq(entries, 1, fromIndex) \o SubSeq(entries, fromIndex + 2, Len(entries)),
    LAMBDA rest :
      SubSeq(rest, 1, toIndex) \o <<entries[fromIndex + 1]>>
        \o SubSeq(rest, toIndex + 1, Len(rest)))

\* setState of the three edits: lines 61-64, 80-83, 103-106
SetModified(playlistId, newEntries) ==
  /\ modifiedPlaylists' = MapCopySet(modifiedPlaylists, playlistId, newEntries)
  /\ hasUnsavedChanges' = TRUE
  /\ UNCHANGED database

\* lines 55-65
removeTrackFromPlaylist(playlistId, trackId) ==
  SetModified(playlistId,
              Reindexed(SelectSeq(getPlaylistEntries(playlistId),
                                  LAMBDA e : e.trackId # trackId)))

\* lines 68-85
reorderPlaylistTracks(playlistId, fromIndex, toIndex) ==
  IF \/ fromIndex < 0 \/ fromIndex >= Len(getPlaylistEntries(playlistId))
     \/ toIndex < 0 \/ toIndex >= Len(getPlaylistEntries(playlistId))
    THEN UNCHANGED evars
    ELSE SetModified(playlistId,
                     Reindexed(Moved(getPlaylistEntries(playlistId),
                                     fromIndex, toIndex)))

\* lines 88-110
addTrackToPlaylist(playlistId, trackId) ==
  IF \E k \in 1..Len(getPlaylistEntries(playlistId)) :
       getPlaylistEntries(playlistId)[k].trackId = trackId
    THEN UNCHANGED evars
    ELSE SetModified(playlistId,
                     Append(getPlaylistEntries(playlistId),
                            Entry(playlistId, trackId,
                                  Len(getPlaylistEntries(playlistId)))))

\* lines 132-137
discardChanges ==
  /\ modifiedPlaylists' = <<>>
  /\ hasUnsavedChanges' = FALSE
  /\ UNCHANGED database

\* lines 140-145
markAsSaved ==
  /\ hasUnsavedChanges' = FALSE
  /\ UNCHANGED <<database, modifiedPlaylists>>

\* ---- edits of a parsed entry list
\* entry lists a parse returns: ordinals from 0, ordinals from 1, ordinals
\* with gaps in rows out of order, no entries
ParsedLists ==
  {LoadedEntries,
   <<Entry(1, 1, 1), Entry(1, 2, 2), Entry(2, 1, 1)>>,
   <<Entry(1, 2, 5), Entry(2, 1, 0), Entry(1, 1, 3)>>,
   <<>>}

InitEdits ==
  /\ database \in ParsedLists
  /\ modifiedPlaylists = <<>>
  /\ hasUnsavedChanges = FALSE
  /\ WriterIdle
  /\ ParserIdle
  /\ AppIdle
  /\ ReaderIdle

Remove(playlists, tracks) ==
  /\ \E playlistId \in playlists, trackId \in tracks :
       removeTrackFromPlaylist(playlistId, trackId)
  /\ UNCHANGED <<wvars, pvars, avars, rvars>>

Reorder(playlists, indices) ==
  /\ \E playlistId \in playlists, fromIndex \in indices, toIndex \in indices :
       reorderPlaylistTracks(playlistId, fromIndex, toIndex)
  /\ UNCHANGED <<wvars, pvars, avars, rvars>>

Add(playlists, tracks) ==
  /\ \E playlistId \in playlists, trackId \in tracks :
       addTrackToPlaylist(playlistId, trackId)
  /\ UNCHANGED <<wvars, pvars, avars, rvars>>

NextEdits ==
  \/ Remove(EditPlaylists, EditTracks)
  \/ Reorder(EditPlaylists, EditIndices)
  \/ Add(EditPlaylists, EditTracks)

SpecEdits == InitEdits /\ [][NextEdits]_vars

\* the ordinals of a list are 0, 1, ..., n-1 in list order
Dense(entries) == \A k \in 1..Len(entries) : entries[k].entryIndex = k - 1

\* C24: every playlist the editor has modified holds the entryIndex values
\* 0, 1, ..., n-1, each once, in list order, after any sequence of
\* removals, reorders and additions from any parsed entry list.
ModifiedPlaylistsAreDense ==
  \A k \in 1..Len(modifiedPlaylists) : Dense(modifiedPlaylists[k].value)

\* the same, from entry lists whose playlists carry the ordinals 0..n-1
ModifiedPlaylistsAreDenseFromDense ==
  (\A playlistId \in EditPlaylists :
     Dense(SortByEntryIndex(SelectSeq(database,
                              LAMBDA e : e.playlistId = playlistId))))
    => ModifiedPlaylistsAreDense

\* a track was added to a playlist of three and then moved to the front
ModifiedPlaylistsAreDenseWitness ==
  /\ database = LoadedEntries
  /\ MapHas(modifiedPlaylists, 1)
  /\ Len(MapGet(modifiedPlaylists, 1)) = 3
  /\ MapGet(modifiedPlaylists, 1)[1].trackId = 3

\* a track was added to a playlist that is shown with its parsed ordinals
AddedToUnmodifiedWitness ==
  /\ database # LoadedEntries
  /\ MapHas(modifiedPlaylists, 1)
  /\ Len(MapGet(modifiedPlaylists, 1)) = 3
  /\ MapGet(modifiedPlaylists, 1)[3].trackId = 3

\* C25: the stored originals follow the disk.  The stored original buffer
\* always equals the bytes of export.pdb, which only a load or the commit of
\* a save sets; the stored original entries change only to the entry list
\* of a save that succeeds or to the entries a load parses; a save that
\* fails resolves to false, resets isSaving and leaves the stored buffer,
\* the stored entries and export.pdb as they were.
StoredOriginalsFollowDisk ==
  /\ [](originalPdbBuffer = exportPdb)
  /\ [][/\ (spc = "close" /\ saveResult' = "true") =>
             /\ originalPlaylistEntries' = saveEntries
             /\ exportPdb' = modifiedBuffer
        /\ (spc # "close" /\ originalPlaylistEntries' # originalPlaylistEntries) =>
             /\ spc = "idle"
             /\ originalPlaylistEntries' = ParseDatabase(exportPdb).playlistEntries
        /\ (spc' = "idle" /\ spc # "idle" /\ saveResult' # "true") =>
             /\ saveResult' = "false"
             /\ isSaving' = FALSE
             /\ UNCHANGED <<originalPdbBuffer, originalPlaylistEntries,
                            exportPdb>>
        /\ spc # "idle" /\ spc' # "idle" =>
             UNCHANGED <<originalPdbBuffer, originalPlaylistEntries, exportPdb>>]_vars

\* a save failed after an earlier save had replaced the bytes of export.pdb
StoredOriginalsFollowDiskWitness ==
  /\ spc = "idle"
  /\ saveResult = "false"
  /\ ~isSaving
  /\ saveCount = MaxSaves
  /\ exportPdb # SaveFile
  /\ originalPdbBuffer = exportPdb

\* a load after a save that removed a track: the stored entries are the
\* three rows of the file again, not the two entries of the save
LoadAfterSaveWitness ==
  /\ saveResult = "true"
  /\ Len(saveEntries) = 2
  /\ Len(originalPlaylistEntries) = 3

(***************************************************************************)
(* The editor over a loaded database: edits, Discard and Save to USB.  The *)
(* Discard and Save buttons are shown while hasUnsavedChanges and disabled *)
(* while isSaving; the edits have no such guard.  handleSave awaits        *)
(* saveDatabase and, when it resolved to true, calls markAsSaved.          *)
(***************************************************************************)
InitEditor ==
  /\ Loaded
  /\ database = LoadedEntries
  /\ modifiedPlaylists = <<>>
  /\ hasUnsavedChanges = FALSE

\* part_001 lines 101-102: up to the first await of saveDatabase
handleSave ==
  /\ hasUnsavedChanges
  /\ ~isSaving
  /\ saveDatabase({allPlaylistEntries})
  /\ UNCHANGED evars

\* part_001 lines 102-105: saveDatabase resolves and handleSave goes on
handleSaveResumes ==
  /\ CloseResolves
  /\ IF saveResult' = "true" THEN markAsSaved ELSE UNCHANGED evars

\* part_001 lines 144-146
Discard ==
  /\ hasUnsavedChanges
  /\ ~isSaving
  /\ discardChanges
  /\ UNCHANGED <<wvars, pvars, avars, rvars>>

NextEditor ==
  \/ Remove({1}, {1, 2}) \/ Reorder({1}, {0, 1}) \/ Add({1}, {1, 2})
  \/ Discard \/ handleSave
  \/ BackupGetFileHandle \/ BackupCreateWritable \/ BackupWrite \/ BackupClose
  \/ GetFileHandle \/ CreateWritable \/ Write \/ handleSaveResumes

SpecEditor == InitEditor /\ [][NextEditor]_vars

\* the entries of a list, whatever their order
EntrySet(entries) == {entries[k] : k \in 1..Len(entries)}

\* C26: whenever hasUnsavedChanges is false the entries the editor shows
\* are those of the last successful save, or the loaded ones when no save
\* succeeded yet.
SavedFlagMeansSaved ==
  ~hasUnsavedChanges =>
    EntrySet(allPlaylistEntries) = EntrySet(originalPlaylistEntries)

\* an edit made while a save was in flight is marked as saved
EditDuringSaveWitness ==
  /\ ~hasUnsavedChanges
  /\ saveResult = "true"
  /\ saveCount = 1
  /\ modifiedPlaylists # <<>>
  /\ EntrySet(allPlaylistEntries) # EntrySet(saveEntries)

\* Discard after a save: the editor shows the loaded entries again
DiscardAfterSaveWitness ==
  /\ ~hasUnsavedChanges
  /\ saveResult = "true"
  /\ modifiedPlaylists = <<>>
  /\ EntrySet(originalPlaylistEntries) # EntrySet(database)

(***************************************************************************)
(* The ordinals of the rows of one playlist.                               *)
(***************************************************************************)
\* the rows of the input that belong to playlist p
RowsOfPlaylist(p) ==
  {i \in 1..Len(originalEntries) : originalEntries[i].playlistId = p}

\* the rows of playlist p carry pairwise distinct ordinals in the bytes b
RowOrdinalsDistinct(b, p) ==
  \A i, j \in RowsOfPlaylist(p) :
    getUint32(b, RowOffset(i)) = getUint32(b, RowOffset(j)) => i = j

\* the edited entries of playlist p carry pairwise distinct ordinals
EditedOrdinalsDistinct(p) ==
  \A i, j \in 1..Len(modifiedEntries) :
    (/\ modifiedEntries[i].playlistId = p
     /\ modifiedEntries[j].playlistId = p
     /\ modifiedEntries[i].entryIndex = modifiedEntries[j].entryIndex) => i = j

\* C27: when the rows of a playlist carry pairwise distinct ordinals in the
\* input and the edited entries of that playlist carry pairwise distinct
\* ordinals, the rows of that playlist carry pairwise distinct ordinals in
\* the output, whatever the edit, the removal of a track included.
DistinctOrdinalsKept ==
  Returned =>
    \A p \in PlaylistIds :
      (RowOrdinalsDistinct(callBytes, p) /\ EditedOrdinalsDistinct(p)) =>
        RowOrdinalsDistinct(Output, p)

\* every row of the playlist was located, matched and has its edited ordinal
AllRowsRewritten(p) ==
  \A i \in RowsOfPlaylist(p) : matchLog[i].outcome \in {"written", "unchanged"}

\* the same for the playlists of which no row was passed over
DistinctOrdinalsKeptWhenAllRewritten ==
  (Returned /\ NoOverlappingLocations) =>
    \A p \in PlaylistIds :
      (/\ RowOrdinalsDistinct(callBytes, p)
       /\ EditedOrdinalsDistinct(p)
       /\ AllRowsRewritten(p)) => RowOrdinalsDistinct(Output, p)

\* a track was removed from a playlist of two: its row keeps the ordinal
\* that the edit gave to the row of the other track
RemovalDuplicatesOrdinalWitness ==
  /\ Returned
  /\ NoOverlappingLocations
  /\ \E i, j \in 1..Len(originalEntries) :
       /\ i # j
       /\ originalEntries[i].playlistId = originalEntries[j].playlistId
       /\ matchLog[i].outcome = "written"
       /\ matchLog[j].outcome \notin {"written", "unchanged", "notFound"}
       /\ RowOrdinalsDistinct(callBytes, originalEntries[i].playlistId)
       /\ EditedOrdinalsDistinct(originalEntries[i].playlistId)
       /\ getUint32(Output, RowOffset(i)) = getUint32(Output, RowOffset(j))

(***************************************************************************)
(* The triple at a located offset.                                         *)
(***************************************************************************)
\* the trackId and playlistId fields at the located offset of the i-th
\* original entry are those of the entry
IdentityKept(i) ==
  /\ getUint32(Output, matchLog[i].offset + 4) = originalEntries[i].trackId
  /\ getUint32(Output, matchLog[i].offset + 8) = originalEntries[i].playlistId

\* C29: for every original entry that was located and matched, the output
\* holds at the located offset the edited entryIndex, the original trackId
\* and the original playlistId; the trackId and playlistId fields of a
\* located row are never altered, by the write of another entry's ordinal
\* neither.
LocatedTripleWritten ==
  Returned =>
    \A i \in 1..Len(originalEntries) :
      /\ IsMatched(i) =>
           /\ getUint32(Output, matchLog[i].offset) = matchLog[i].target.entryIndex
           /\ IdentityKept(i)
      /\ IsLocated(i) => IdentityKept(i)

\* the same for the calls whose located triples do not overlap
LocatedTripleWrittenWithoutOverlap ==
  (Returned /\ NoOverlappingLocations) => LocatedTripleWritten

\* two matched entries whose located triples overlap: the ordinal written
\* for the second one lands in the trackId field of the first
MatchedOverlapWitness ==
  /\ Returned
  /\ \E i, j \in 1..Len(originalEntries) :
       /\ IsMatched(i)
       /\ matchLog[j].outcome = "written"
       /\ matchLog[j].offset = matchLog[i].offset + 4
       /\ ~IdentityKept(i)

(***************************************************************************)
(* The fallback branch of readDeviceSqlString over all its tags.  The      *)
(* buffers hold one unused byte, a tag above 0x3F and a run of the letter  *)
(* A, so that nothing is stripped from what is read.                       *)
(***************************************************************************)
HighTags == 64..255

RunLengths == {0, 31, 130}

InitFallback ==
  /\ rpc = "ready"
  /\ rbuf \in {<<0, tag>> \o Repeat(65, n) : tag \in HighTags, n \in RunLengths}
  /\ rcall = <<>>
  /\ WriterIdle
  /\ ParserIdle
  /\ AppIdle
  /\ EditorIdle

NextFallback == ReadStringCall

SpecFallback == InitFallback /\ [][NextFallback]_vars

\* the call takes the fallback branch
InFallback ==
  /\ IsString
  /\ rcall.offset # 0
  /\ StringInside
  /\ Tag > 63
  /\ Tag \notin {64, 144}

\* floor((tag - 1) / 2 - 1)
FloorOfLength(tag) == (tag - 3) \div 2

\* C30: in the fallback branch (tag above 0x3F, neither 0x40 nor 0x90) the
\* number of characters read is floor((tag - 1) / 2 - 1); for every 8-bit
\* tag that reaches the branch this number is between 1 and 127, and the
\* string is '' only when the characters do not fit in the buffer.
FallbackLength ==
  InFallback =>
    /\ FloorOfLength(Tag) >= 1
    /\ FloorOfLength(Tag) <= 127
    /\ ~rcall.result.threw
    /\ Len(rcall.result.value) =
         IF StringPos + 1 + FloorOfLength(Tag) > Len(rbuf) THEN 0
         ELSE FloorOfLength(Tag)

\* an even tag: the half is cut off
FallbackLengthWitness ==
  /\ InFallback
  /\ Tag = 254
  /\ Len(rcall.result.value) = 125

\* the largest tag
LargestTagWitness ==
  /\ InFallback
  /\ Tag = 255
  /\ Len(rcall.result.value) = 126

(***************************************************************************)
(* Chains of the playlist entries that come back to a page.  The walk of   *)
(* such a chain ends at the page ceiling of 100000 pages; the behaviours   *)
(* are followed for the first MaxVisits pages of a walk.                   *)
(***************************************************************************)
MaxVisits == 5

Page3 == 3 * SmallPage
Page4 == 4 * SmallPage

\* the nextPage links of the two pages of the playlist entries
EntryLinkPatches ==
  {<<Page3 + 12, LE32(v)>> : v \in {0, 1, 2, 3, 4}}
  \cup {<<Page4 + 12, LE32(v)>> : v \in {0, 1, 2, 3, 4, 5}}

RevisitFiles == {Patched(SmallFile, q) : q \in EntryLinkPatches}

InitRevisit == ParserStarts(RevisitFiles)

WalkPageUpTo == pageCount < MaxVisits /\ WalkPage

NextRevisit == Construct \/ StartTable \/ WalkPageUpTo \/ EndWalk \/ ParseReturn

SpecRevisit == InitRevisit /\ [][NextRevisit]_vars

\* the chain of the k-th table comes back to one of its pages
ChainRevisits(k) ==
  \E i, j \in 1..Len(TableChain(k)) :
    i # j /\ TableChain(k)[i] = TableChain(k)[j]

\* C28: within one walk of a table each live row is yielded at most once,
\* so the playlist-entry list holds each stored playlist row at most once,
\* also when the nextPage links come back to a page.  (The rows of the
\* files are pairwise different, so an entry that is twice in the list is
\* a row that was yielded twice.)
EachRowOnce ==
  \A i, j \in 1..Len(db.playlistEntries) :
    db.playlistEntries[i] = db.playlistEntries[j] => i = j

\* the same for the files whose chain of playlist entries visits no page
\* twice
EachRowOnceWithoutRevisit ==
  (ppc \in {"walk", "returned"} /\ ~ChainRevisits(9)) => EachRowOnce

\* a parse returned the three entries of a chain without a revisit
EachRowOnceWitness ==
  /\ ppc = "returned"
  /\ ~ChainRevisits(9)
  /\ Len(db.playlistEntries) = 3

\* page 3 links to itself: its two rows are in the list twice after the
\* second visit
RevisitWitness ==
  /\ ppc = "walk"
  /\ tableIdx = 9
  /\ pageCount = 2
  /\ currentPage = 3
  /\ Len(db.playlistEntries) = 4
  /\ db.playlistEntries[1] = db.playlistEntries[3]

====
